---- MODULE Spec2Model ----
(***************************************************************************)
(* Terrain generation utilities of the memory-garden front end             *)
(* (apps/web/src/gardens/utils/terrainUtils.ts).                           *)
(*                                                                         *)
(* Numbers.  JavaScript numbers are IEEE doubles.  The model keeps them as *)
(* exact rationals with an explicit denominator:                           *)
(*   - a sample coordinate is an integer count of 1/Sub units;             *)
(*   - fade(t) is an integer count of 1/FadeDen units;                     *)
(*   - a noise value is an integer count of 1/NoiseDen units.              *)
(* On such coordinates every operation of noise2D is exact in doubles      *)
(* (all intermediate values have far fewer than 53 significant bits when   *)
(* Sub is a power of two), so the model computes the same value.           *)
(* NaN and undefined are explicit values.  The Float32Array store is       *)
(* modelled by exact binary32 round-to-nearest-even (F32Round).            *)
(***************************************************************************)
EXTENDS Integers, Sequences, FiniteSets, TLC

\* ------------------------------------------------------------------------
\* Bounds of the model
\* ------------------------------------------------------------------------
\* sample coordinates are multiples of 1/Sub
Sub == 4

\* seeds run over -MaxSeed .. MaxSeed; the model takes the ones in Seeds
MaxSeed == 1000
\* noise2D is sampled at coordinates within MaxCoord of the origin
MaxCoord == 1
\* heightmaps have up to MaxDim columns and rows
MaxDim == 2
\* generateHeightmap sums 1 .. MaxOctaves octaves
MaxOctaves == 2
\* a run makes up to MaxCalls generateHeightmap calls
MaxCalls == 3
\* sampleHeight is sampled up to MaxOutside beyond the terrain extent
MaxOutside == 1
\* and at FarOutside terrain sizes from the centre
FarOutside == 1000
\* a run makes buffers until there are MaxBuffers of them
MaxBuffers == 3
\* a run places up to MaxFlowers flowers
MaxFlowers == 2

VARIABLES
  permutation,  \* TerrainNoise.permutation of the generator built last
  rngState,     \* the variable `seed` captured by that generator's closure
  draws,        \* the LCG state after each draw of its shuffle, in order
  noiseSeed,    \* the seed the generator was constructed with
  lastNoise,    \* the last noise2D call: its point and its result
  lastPeriod,   \* the comparison of noise2D a period apart, if it came last
  calls,        \* how many generateHeightmap calls have returned
  firstCall,    \* the first generateHeightmap call: arguments and buffer
  lastCall,     \* the latest generateHeightmap call: arguments and buffer
  otherCalls,   \* calls so far whose arguments differ from the first call's
  returned,     \* the buffers generateHeightmap returned into the heap, in order
  heap,         \* the Float32Array buffers, in the order they were made
  terrain,      \* width, height and terrainSize of the heightmap heap[1]
  lastSample,   \* the last sampleHeight call: its point and its result
  lastFalloff,  \* the last applyEdgeFalloff call: its input and its result
  lastSlopes,   \* the last calculateSlopes call: its input and its result
  ground,       \* the last TerrainGround geometry: its buffers and attributes
  flowers,            \* App: the flowers list of useFlowerGarden
  nextFlower,         \* how many flower ids generateFlowerId has made
  placingFlowerType,  \* App: the flower type being placed, or null
  selectedFlower,     \* App: the flower clicked last, as it was then, or null
  lastClick,          \* the last click on the ground plane, and the lists around it
  lastEdit,           \* the last call of a function of useFlowerGarden
  isDraggingFlower,   \* App: a flower is being dragged (OrbitControls disabled)
  dragging,           \* the ids of the FlowerModels whose `dragging` state is true
  pointer,            \* the pointer: up, down, or down on a draggable flower
  lastPointerUp       \* the last pointer-up: what it ended

\* ------------------------------------------------------------------------
\* JavaScript values that are not numbers of the table
\* ------------------------------------------------------------------------
\* the value read from an absent array element or property
Undefined == -1
\* the index that results from undefined + Y
NaNIndex == -2

\* ------------------------------------------------------------------------
\* TerrainNoise: the seeded permutation table
\* ------------------------------------------------------------------------
LcgMul == 9301
LcgInc == 49297
LcgMod == 233280
TableSize == 256

Abs(a) == IF a < 0 THEN -a ELSE a

\* JavaScript's % : the remainder takes the sign of the dividend.
JsRem(a, b) == IF a >= 0 THEN a % b ELSE -((-a) % b)

\* a generator whose LCG state outlives the object that owns it
seededRandomShared(seed) == seed + rngState

\* this.seededRandom(seed) returns a closure over its parameter: the state
\* of the generator starts at the seed given to the constructor
seededRandom(seed) == seed

\* one call of the closure: seed = (seed * 9301 + 49297) % 233280, the new
\* seed is the numerator of the draw seed / 233280.  The product is exact
\* in doubles; here it is reduced piecewise (9301 = 93*100 + 1) so that no
\* intermediate value leaves the 32-bit range of the checker.
random(seed) ==
  LET a    == Abs(seed)
      part == ((a * (LcgMul \div 100)) % LcgMod) * 100 + a * (LcgMul % 100)
      \* the sign of seed * 9301 + 49297
      neg  == seed < 0 /\ a > LcgInc \div LcgMul
  IN  IF neg THEN -((part - LcgInc) % LcgMod)
             ELSE IF seed >= 0 THEN (part + LcgInc) % LcgMod
                               ELSE JsRem(seed * LcgMul + LcgInc, LcgMod)

\* Math.floor(random() * (i + 1)) for the draw s / 233280.  The floor of the
\* exact quotient is the floor of the product the code computes in binary64
\* for every draw of the seeds -1001 .. 1001.
ShuffleIndex(s, i) == (s * (i + 1)) \div LcgMod

\* reading an element of a JavaScript array or object
Get(p, k) == IF k \in DOMAIN p THEN p[k] ELSE Undefined

\* [p[i], p[j]] = [p[j], p[i]] for 0 < i < 256 and j <= i; a j that is no
\* element yet (a negative one) reads undefined and becomes a property of
\* the array object
SwapNone(p, i, j) == p
Swap(p, i, j) ==
  IF j >= 0 \/ j \in DOMAIN p
    THEN [p EXCEPT ![i] = p[j], ![j] = p[i]]
    ELSE (j :> p[i]) @@ [p EXCEPT ![i] = Undefined]

\* one iteration of the shuffle loop (lines 23-24); st.seed is the closure's
\* variable
ShuffleStep(st, i) ==
  LET s1 == random(st.seed)
  IN  [perm |-> Swap(st.perm, i, ShuffleIndex(s1, i)), seed |-> s1]

\* the iterations i = hi, hi - 1, ..., lo in this order (the range is
\* halved so that the evaluation stays shallow)
RECURSIVE ShuffleRange(_, _, _)
ShuffleRange(st, hi, lo) ==
  IF hi = lo THEN ShuffleStep(st, hi)
  ELSE LET mid   == (hi + lo + 1) \div 2
           first == ShuffleRange(st, hi, mid)
       IN  \* the test makes the checker finish the first half before it
           \* starts the second
           IF first.seed # LcgMod THEN ShuffleRange(first, mid - 1, lo) ELSE first

\* new TerrainNoise(seed): identity, shuffle for i = 255 .. 1, then the
\* table doubled by [...p, ...p], which copies the elements 0..255 only
TerrainNoise(seed) ==
  LET identity == [i \in 0 .. TableSize - 1 |-> i]
      sh       == ShuffleRange([perm |-> identity, seed |-> seededRandom(seed)],
                               TableSize - 1, 1)
  IN  [permutation |-> [k \in 0 .. 2 * TableSize - 1 |-> sh.perm[k % TableSize]],
       seed        |-> sh.seed]

\* the LCG states of the n draws that follow the state s, in order
RECURSIVE LcgStates(_, _)
LcgStates(s, n) ==
  IF n = 0 THEN << >>
  ELSE IF n = 1 THEN << random(s) >>
  ELSE LET first == LcgStates(s, n \div 2)
       IN  first \o LcgStates(first[Len(first)], n - n \div 2)

\* ------------------------------------------------------------------------
\* TerrainNoise.noise2D
\* ------------------------------------------------------------------------
FadeDen  == Sub * Sub * Sub * Sub * Sub
NoiseDen == Sub * FadeDen * FadeDen

\* the weights turned round: 1 - fade(t)
fadeReversed(n) == FadeDen - n * n * n * (n * (6 * n - 15 * Sub) + 10 * Sub * Sub)

\* fade(t) = t^3 (t (6t - 15) + 10) for t = n / Sub, in 1/FadeDen units
fade(n) == n * n * n * (n * (6 * n - 15 * Sub) + 10 * Sub * Sub)

\* an interpolation that adds the end points: a + t (b + a)
lerpSum(t, a, b) == a * FadeDen + t * (b + a)

\* lerp(t, a, b) = a + t (b - a); t in 1/FadeDen units, the result in the
\* unit of a and b divided by FadeDen
lerp(t, a, b) == a * FadeDen + t * (b - a)

\* grad(hash, x, y); undefined & 15 is 0
grad(hash, x, y) ==
  LET h == IF hash = Undefined THEN 0 ELSE hash % 16
      u == IF h < 8 THEN x ELSE y
      v == IF h < 4 THEN y ELSE IF h = 12 \/ h = 14 THEN x ELSE 0
  IN  (IF h % 2 = 0 THEN u ELSE -u) + (IF (h \div 2) % 2 = 0 THEN v ELSE -v)

\* permutation[X] + Y
AddIndex(p, Y) == IF p = Undefined THEN NaNIndex ELSE p + Y
\* an index plus one; NaN + 1 is NaN
Succ(a) == IF a = NaNIndex THEN NaNIndex ELSE a + 1

\* the table indices noise2D reads for the cell (X, Y)
NoiseIndices(perm, X, Y) ==
  LET a  == AddIndex(Get(perm, X), Y)
      b  == AddIndex(Get(perm, X + 1), Y)
  IN  [X |-> X, X1 |-> X + 1, a |-> a, a1 |-> Succ(a), b |-> b, b1 |-> Succ(b),
       aa |-> Get(perm, a), ab |-> Get(perm, Succ(a)),
       ba |-> Get(perm, b), bb |-> Get(perm, Succ(b))]

\* lines 57-58: n & 255 for the integer n = Math.floor(x)
MaskNone(n) == n
Mask(n) == n % TableSize

\* noise2D(x, y) for x = xq / Sub, y = yq / Sub, in 1/NoiseDen units
noise2D(perm, xq, yq) ==
  LET fx == xq \div Sub
      fy == yq \div Sub
      X  == Mask(fx)
      Y  == Mask(fy)
      x  == xq - fx * Sub
      y  == yq - fy * Sub
      u  == fade(x)
      v  == fade(y)
      ix == NoiseIndices(perm, X, Y)
  IN  lerp(v,
           lerp(u, grad(Get(perm, ix.aa), x, y), grad(Get(perm, ix.ba), x - Sub, y)),
           lerp(u, grad(Get(perm, ix.ab), x, y - Sub), grad(Get(perm, ix.bb), x - Sub, y - Sub)))

\* ------------------------------------------------------------------------
\* Float32Array: a stored number is rounded to binary32
\* ------------------------------------------------------------------------
F32Bits == 24
Pow2(n) == 2 ^ n

\* num * 2^k = q * den + r with 0 <= r < den, from the same for k - 1
RECURSIVE ScaleUp(_, _, _, _)
ScaleUp(q, r, den, k) ==
  IF q >= Pow2(F32Bits - 1) THEN [q |-> q, r |-> r, k |-> k]
  ELSE ScaleUp(2 * q + (IF 2 * r >= den THEN 1 ELSE 0),
               IF 2 * r >= den THEN 2 * r - den ELSE 2 * r, den, k + 1)

\* The binary32 number nearest to num / den (ties to even), for
\* |num / den| < 2^24 and far above the subnormal range: the record
\* [neg, m, k] stands for (-1)^neg * m / 2^k, and m has 24 bits unless the
\* value is 0.
F32Round(num, den) ==
  IF num = 0 THEN [neg |-> FALSE, m |-> 0, k |-> 0]
  ELSE LET a  == Abs(num)
           s  == ScaleUp(a \div den, a % den, den, 0)
           up == 2 * s.r > den \/ (2 * s.r = den /\ s.q % 2 = 1)
       IN  [neg |-> num < 0, m |-> IF up THEN s.q + 1 ELSE s.q, k |-> s.k]

\* Compare the magnitude m / 2^k with a / den: -1, 0 or 1 as it is less,
\* equal or greater.  a is scaled up k times; once its quotient exceeds m it
\* stays above.
RECURSIVE CmpMagnitude(_, _, _, _, _)
CmpMagnitude(m, k, q, r, den) ==
  IF q > m THEN -1
  ELSE IF k = 0 THEN (IF m > q THEN 1 ELSE IF r > 0 THEN -1 ELSE 0)
  ELSE CmpMagnitude(m, k - 1, 2 * q + (IF 2 * r >= den THEN 1 ELSE 0),
                    IF 2 * r >= den THEN 2 * r - den ELSE 2 * r, den)

\* the sign of f - num / den for a binary32 number f
F32Compare(f, num, den) ==
  LET fsign == IF f.m = 0 THEN 0 ELSE IF f.neg THEN -1 ELSE 1
      rsign == IF num = 0 THEN 0 ELSE IF num < 0 THEN -1 ELSE 1
  IN  IF fsign # rsign THEN (IF fsign < rsign THEN -1 ELSE 1)
      ELSE IF fsign = 0 THEN 0
      ELSE fsign * CmpMagnitude(f.m, f.k, Abs(num) \div den, Abs(num) % den, den)

\* ------------------------------------------------------------------------
\* generateHeightmap
\* ------------------------------------------------------------------------
\* Options: seed; scale = opt.scale / Sub; octaves; persistence and
\* redistribution as <<numerator, denominator>>; lacunarity an integer;
\* amplitude as <<numerator, denominator>>, positive and a binary32 number.
RECURSIVE IPow(_, _)
IPow(b, e) == IF e = 0 THEN 1 ELSE b * IPow(b, e - 1)

Max2(a, b) == IF a >= b THEN a ELSE b
Min2(a, b) == IF a <= b THEN a ELSE b

\* currentAmplitude of octave k, over the common denominator pd^(octaves-1)
OctaveAmplitude(opt, k) ==
  IPow(opt.persistence[1], k) * IPow(opt.persistence[2], opt.octaves - 1 - k)

\* amplitudeSum over the same denominator
AmplitudeSum(opt) ==
  LET RECURSIVE Sum(_)
      Sum(k) == IF k = opt.octaves THEN 0 ELSE OctaveAmplitude(opt, k) + Sum(k + 1)
  IN  Sum(0)

\* the denominator of every noiseValue / amplitudeSum of one call
RawDen(opt) == NoiseDen * AmplitudeSum(opt)

\* lines 116-134: the numerator of noiseValue / amplitudeSum for the cell
\* (x, y); octave k samples at (x, y) * scale * lacunarity^k
RawNoise(perm, opt, x, y) ==
  LET RECURSIVE Sum(_)
      Sum(k) ==
        IF k = opt.octaves THEN 0
        ELSE LET f == opt.scale * IPow(opt.lacunarity, k)
             IN  noise2D(perm, x * f, y * f) * OctaveAmplitude(opt, k) + Sum(k + 1)
  IN  Sum(0)

\* A computed height is NaN or the number amp * (num / den) ^ exp, known up
\* to the binary32 rounding of the stored noise value: sgn is its exact
\* sign (a rounding error can make a nominal 0 negative or positive).
One == <<1, 1>>
NaNValue == [nan |-> TRUE, sgn |-> 0, num |-> 0, den |-> 0, exp |-> One, amp |-> One]

\* line 147: (heightmap[i] - minHeight) / (maxHeight - minHeight), where
\* heightmap[i] is the binary32 number f stored for raw / den and minHeight,
\* maxHeight are the doubles lo / den, hi / den.  0 / 0 is NaN.
Normalize(f, raw, lo, hi, den) ==
  LET sgn == F32Compare(f, lo, den)
  IN  IF hi = lo /\ sgn = 0 THEN NaNValue
      ELSE [nan |-> FALSE, sgn |-> sgn, num |-> raw - lo, den |-> hi - lo,
            exp |-> One, amp |-> One]

\* line 150: Math.pow(normalized, redistribution) for redistribution > 0.
\* A negative base gives NaN unless the exponent is an integer.
MathPow(v, r) ==
  IF v.nan THEN NaNValue
  ELSE IF v.sgn < 0 /\ r[1] % r[2] # 0 THEN NaNValue
  ELSE IF v.sgn < 0 /\ (r[1] \div r[2]) % 2 = 0 THEN [v EXCEPT !.sgn = 1, !.exp = r]
  ELSE [v EXCEPT !.exp = r]

\* line 153: heightmap[i] = normalized * amplitude, for amplitude > 0 (the
\* binary32 rounding of this last store keeps NaN, 0 and the sign)
Scale(v, amplitude) == IF v.nan THEN NaNValue ELSE [v EXCEPT !.amp = amplitude]

\* generateHeightmap(width, height, options): the returned buffer, cell
\* (x, y) at index y * width + x + 1
generateHeightmap(width, height, opt) ==
  LET noise == TerrainNoise(opt.seed)
      den   == RawDen(opt)
      raw   == [i \in 1 .. width * height |->
                  RawNoise(noise.permutation, opt, (i - 1) % width, (i - 1) \div width)]
      \* line 137: heightmap[index] = noiseValue
      stored == [i \in 1 .. width * height |-> F32Round(raw[i], den)]
      \* lines 110-111, 139-140: both start at 0
      RECURSIVE Fold(_, _, _)
      Fold(i, lo, hi) ==
        IF i > width * height THEN <<lo, hi>>
        ELSE Fold(i + 1, Min2(lo, raw[i]), Max2(hi, raw[i]))
      mm == Fold(1, 0, 0)
  IN  [heightmap |-> [i \in 1 .. width * height |->
                        Scale(MathPow(Normalize(stored[i], raw[i], mm[1], mm[2], den),
                                      opt.redistribution), opt.amplitude)],
       raw |-> raw, minHeight |-> mm[1], maxHeight |-> mm[2],
       noise |-> noise]

\* ------------------------------------------------------------------------
\* JavaScript numbers: IEEE 754 binary64, every operation rounded to
\* nearest, ties to even.  A mantissa is a natural number written in limbs
\* of LimbBits bits, least significant first, without leading zero limbs.
\* Overflow, subnormal numbers and the sign of zero are not modelled: the
\* magnitudes of the modelled computations stay far inside the range.
\* ------------------------------------------------------------------------

\* const x = v; F(x): the value v is computed once, however often F uses
\* it (an operator argument or a LET definition is evaluated at each use)
Let(v, F(_)) == CHOOSE r \in {F(x) : x \in {v}} : TRUE
Let2(v, w, F(_, _)) == CHOOSE r \in {F(x, y) : x \in {v}, y \in {w}} : TRUE

LimbBits == 15
Base == 2 ^ LimbBits
F64Bits == 53

Limb(a, i) == IF i <= Len(a) THEN a[i] ELSE 0

\* a without its leading zero limbs
BTrim(a) ==
  LET used == {i \in DOMAIN a : a[i] # 0}
  IN  IF used = {} THEN << >>
      ELSE SubSeq(a, 1, CHOOSE i \in used : \A j \in used : j <= i)

RECURSIVE BFromInt(_)
BFromInt(n) == IF n = 0 THEN << >> ELSE << n % Base >> \o BFromInt(n \div Base)

RECURSIVE BToInt(_)
BToInt(a) == IF a = << >> THEN 0 ELSE a[1] + Base * BToInt(Tail(a))

BAdd(a0, b0) ==
  Let2(a0, b0, LAMBDA a, b :
    LET n == Max2(Len(a), Len(b)) + 1
        RECURSIVE Go(_, _)
        Go(i, c) ==
          IF i > n THEN << >>
          ELSE Let(Limb(a, i) + Limb(b, i) + c,
                   LAMBDA t : << t % Base >> \o Go(i + 1, t \div Base))
    IN  BTrim(Go(1, 0)))

\* a - b for a >= b
BSub(a0, b0) ==
  Let2(a0, b0, LAMBDA a, b :
    LET RECURSIVE Go(_, _)
        Go(i, c) ==
          IF i > Len(a) THEN << >>
          ELSE Let(a[i] - Limb(b, i) - c,
                   LAMBDA t : << t % Base >> \o Go(i + 1, IF t < 0 THEN 1 ELSE 0))
    IN  BTrim(Go(1, 0)))

\* the sign of a - b
BCmp(a0, b0) ==
  Let2(a0, b0, LAMBDA a, b :
    LET RECURSIVE Go(_)
        Go(i) == IF i = 0 THEN 0
                 ELSE IF a[i] < b[i] THEN -1
                 ELSE IF a[i] > b[i] THEN 1
                 ELSE Go(i - 1)
    IN  IF Len(a) < Len(b) THEN -1 ELSE IF Len(a) > Len(b) THEN 1 ELSE Go(Len(a)))

\* a * k for 0 <= k < Base
BMulSmall(a0, k0) ==
  Let2(a0, k0, LAMBDA a, k :
    LET RECURSIVE Go(_, _)
        Go(i, c) ==
          IF i > Len(a) THEN << c >>
          ELSE Let(a[i] * k + c,
                   LAMBDA t : << t % Base >> \o Go(i + 1, t \div Base))
    IN  BTrim(Go(1, 0)))

BShiftLimbs(a0, n) ==
  Let(a0, LAMBDA a : IF a = << >> THEN a ELSE [i \in 1 .. n |-> 0] \o a)

BMul(a0, b0) ==
  Let2(a0, b0, LAMBDA a, b :
    LET RECURSIVE Go(_)
        Go(j) == IF j > Len(b) THEN << >>
                 ELSE BAdd(BShiftLimbs(BMulSmall(a, b[j]), j - 1), Go(j + 1))
    IN  Go(1))

\* quotient and remainder of a by d, 0 < d <= Base
BDivSmall(a0, d0) ==
  Let2(a0, d0, LAMBDA a, d :
    LET RECURSIVE Go(_, _)
        Go(i, r) ==
          IF i > Len(a) THEN [q |-> << >>, r |-> r]
          ELSE Let(r * Base + a[Len(a) + 1 - i], LAMBDA t :
               Let(Go(i + 1, t % d), LAMBDA rest :
                 [q |-> rest.q \o << t \div d >>, r |-> rest.r]))
    IN  Let(Go(1, 0), LAMBDA g : [q |-> BTrim(g.q), r |-> g.r]))

\* a * 2^n
BShl(a, n) == BShiftLimbs(BMulSmall(a, 2 ^ (n % LimbBits)), n \div LimbBits)

\* floor(a / 2^n), and whether a nonzero fraction was dropped
BShr(a0, n0) ==
  Let2(a0, n0, LAMBDA a, n :
    LET k == Min2(n \div LimbBits, Len(a))
    IN  Let(BDivSmall(SubSeq(a, k + 1, Len(a)), 2 ^ (n % LimbBits)), LAMBDA d :
          [q |-> d.q, sticky |-> d.r # 0 \/ \E i \in 1 .. k : a[i] # 0]))

RECURSIVE BitLength(_)
BitLength(n) == IF n = 0 THEN 0 ELSE 1 + BitLength(n \div 2)

BBitLen(a0) ==
  Let(a0, LAMBDA a :
    IF a = << >> THEN 0 ELSE LimbBits * (Len(a) - 1) + BitLength(a[Len(a)]))

BOdd(a0) == Let(a0, LAMBDA a : a # << >> /\ a[1] % 2 = 1)

\* the quotient floor(a * 2^DivBits / b) of two mantissas of F64Bits bits,
\* by long division in limbs, and whether the division left a remainder
DivLimbs == 4
DivBits == DivLimbs * LimbBits
BDiv(a, b) ==
  Let2(BShl(a, DivBits - F64Bits), BShl(b, DivBits - F64Bits), LAMBDA A, D :
    LET ge  == BCmp(A, D) >= 0
        top == D[DivLimbs]
        \* the largest digit q <= qh with q * D <= R
        RECURSIVE Fit(_, _)
        Fit(R, qh0) ==
          Let(qh0, LAMBDA qh :
            IF BCmp(BMulSmall(D, qh), R) > 0 THEN Fit(R, qh - 1) ELSE qh)
        RECURSIVE Go(_, _, _)
        Go(k, R, Q) ==
          IF k = 0 THEN [q |-> Q, sticky |-> R # << >>]
          ELSE Let(BShiftLimbs(R, 1), LAMBDA R1 :
               Let(Fit(R1, Min2(Base - 1,
                                (Limb(R1, DivLimbs + 1) * Base + Limb(R1, DivLimbs))
                                  \div top)), LAMBDA q :
               Let2(BSub(R1, BMulSmall(D, q)), << q >> \o Q, LAMBDA R2, Q2 :
                 Go(k - 1, R2, Q2))))
    IN  IF ge THEN Go(DivLimbs, BSub(A, D), << 1 >>) ELSE Go(DivLimbs, A, << >>))

Zero == [nan |-> FALSE, neg |-> FALSE, m |-> << >>, e |-> 0]
NaN  == [nan |-> TRUE, neg |-> FALSE, m |-> << >>, e |-> 0]

IsZero(a) == ~a.nan /\ a.m = << >>

\* the number of p bits nearest to (m + f) * 2^e, negated if neg, where f
\* is a fraction in (0, 1) if sticky and 0 otherwise; m has at least p + 2
\* bits if sticky.  The result is written with a mantissa of F64Bits bits.
FRoundTo(neg, m0, e, sticky, p) ==
  Let(m0, LAMBDA m :
    IF m = << >> THEN Zero
    ELSE
      Let(IF BBitLen(m) > p THEN BBitLen(m) - p ELSE 0, LAMBDA n :
      \* s1: m without its last n - 1 bits; q: without its last n bits
      Let(IF n = 0 THEN [q |-> m, sticky |-> FALSE] ELSE BShr(m, n - 1), LAMBDA s1 :
      Let(IF n = 0 THEN m ELSE BDivSmall(s1.q, 2).q, LAMBDA q :
      Let(IF n > 0 /\ BOdd(s1.q) /\ (s1.sticky \/ sticky \/ BOdd(q))
            THEN BAdd(q, << 1 >>) ELSE q, LAMBDA q1 :
      Let(F64Bits - BBitLen(q1), LAMBDA sh :
        [nan |-> FALSE, neg |-> neg,
         m |-> IF sh >= 0 THEN BShl(q1, sh) ELSE BShr(q1, -sh).q,
         e |-> e + n - sh]))))))

FromInt(n) == FRoundTo(n < 0, BFromInt(IF n < 0 THEN -n ELSE n), 0, FALSE, F64Bits)

FNeg(a0) ==
  Let(a0, LAMBDA a : IF a.nan \/ IsZero(a) THEN a ELSE [a EXCEPT !.neg = ~a.neg])
FAbs(a0) ==
  Let(a0, LAMBDA a : IF a.nan THEN a ELSE [a EXCEPT !.neg = FALSE])

FMul(a0, b0) ==
  Let2(a0, b0, LAMBDA a, b :
    IF a.nan \/ b.nan THEN NaN
    ELSE IF IsZero(a) \/ IsZero(b) THEN Zero
    ELSE FRoundTo(a.neg # b.neg, BMul(a.m, b.m), a.e + b.e, FALSE, F64Bits))

\* a + b; an operand more than FarBits binary places below the other only
\* decides the direction of the rounding
FarBits == 64
FAdd(a0, b0) ==
  Let2(a0, b0, LAMBDA a, b :
    IF a.nan \/ b.nan THEN NaN
    ELSE IF IsZero(a) THEN b
    ELSE IF IsZero(b) THEN a
    ELSE
      LET hi == IF a.e >= b.e THEN a ELSE b
          lo == IF a.e >= b.e THEN b ELSE a
          d  == hi.e - lo.e
      IN  IF d > FarBits
            THEN IF hi.neg = lo.neg
                   THEN FRoundTo(hi.neg, BShl(hi.m, 2), hi.e - 2, TRUE, F64Bits)
                   ELSE FRoundTo(hi.neg, BSub(BShl(hi.m, 2), << 1 >>), hi.e - 2, TRUE,
                                 F64Bits)
          ELSE Let(BShl(hi.m, d), LAMBDA A :
               Let(BCmp(A, lo.m), LAMBDA c :
                 IF hi.neg = lo.neg
                   THEN FRoundTo(hi.neg, BAdd(A, lo.m), lo.e, FALSE, F64Bits)
                 ELSE IF c = 0 THEN Zero
                 ELSE IF c > 0 THEN FRoundTo(hi.neg, BSub(A, lo.m), lo.e, FALSE, F64Bits)
                 ELSE FRoundTo(lo.neg, BSub(lo.m, A), lo.e, FALSE, F64Bits))))

FSub(a, b) == FAdd(a, FNeg(b))

\* a / b; 0 / 0 is NaN (a nonzero number is never divided by zero here)
FDiv(a0, b0) ==
  Let2(a0, b0, LAMBDA a, b :
    IF a.nan \/ b.nan \/ IsZero(b) THEN NaN
    ELSE IF IsZero(a) THEN Zero
    ELSE Let(BDiv(a.m, b.m), LAMBDA d :
           FRoundTo(a.neg # b.neg, d.q, a.e - b.e - DivBits, d.sticky, F64Bits)))

\* floor(sqrt(n)) bit by bit from the binary place 4^SqrtBits down, and
\* whether n is not a square.  Run(lo, hi, st) decides the bits hi down to
\* lo, the upper half of them first.
SqrtBits == 54
BSqrt(n) ==
  LET Step(k, st) ==
        Let2(BShl(<< 1 >>, 2 * k), BShr(st.res, 1).q, LAMBDA one, half :
        Let(BAdd(st.res, one), LAMBDA t :
          IF BCmp(st.rem, t) >= 0
            THEN [rem |-> BSub(st.rem, t), res |-> BAdd(half, one)]
            ELSE [rem |-> st.rem, res |-> half]))
      RECURSIVE Run(_, _, _)
      Run(lo, hi, st0) ==
        Let(st0, LAMBDA st :
          IF lo = hi THEN Step(hi, st)
          ELSE Let(Run(((lo + hi) \div 2) + 1, hi, st), LAMBDA mid :
                 Run(lo, (lo + hi) \div 2, mid)))
  IN  Let(Run(0, SqrtBits, [rem |-> n, res |-> << >>]), LAMBDA st :
        [q |-> st.res, sticky |-> st.rem # << >>])

\* Math.sqrt: NaN for a negative number
FSqrt(a0) ==
  Let(a0, LAMBDA a :
    IF a.nan THEN NaN
    ELSE IF IsZero(a) THEN Zero
    ELSE IF a.neg THEN NaN
    ELSE LET s == 2 * SqrtBits - F64Bits + 1 + (a.e % 2)
         IN  Let(BSqrt(BShl(a.m, s)), LAMBDA r :
               FRoundTo(FALSE, r.q, (a.e - s) \div 2, r.sticky, F64Bits)))

\* the sign of a - b for numbers a, b
FCmp(a, b) ==
  Let(FSub(a, b), LAMBDA d : IF IsZero(d) THEN 0 ELSE IF d.neg THEN -1 ELSE 1)

FLess(a0, b0) == Let2(a0, b0, LAMBDA a, b : ~a.nan /\ ~b.nan /\ FCmp(a, b) < 0)
FLessEq(a0, b0) == Let2(a0, b0, LAMBDA a, b : ~a.nan /\ ~b.nan /\ FCmp(a, b) <= 0)

\* Math.max and Math.min: NaN if an argument is NaN
MathMax(a0, b0) ==
  Let2(a0, b0, LAMBDA a, b :
    IF a.nan \/ b.nan THEN NaN ELSE IF FCmp(a, b) >= 0 THEN a ELSE b)
MathMin(a0, b0) ==
  Let2(a0, b0, LAMBDA a, b :
    IF a.nan \/ b.nan THEN NaN ELSE IF FCmp(a, b) <= 0 THEN a ELSE b)

\* Math.floor of a number of magnitude below 2^31, as an integer
MathFloor(a0) ==
  Let(a0, LAMBDA a :
    IF IsZero(a) THEN 0
    ELSE Let(IF a.e >= 0 THEN [q |-> BShl(a.m, a.e), sticky |-> FALSE]
             ELSE BShr(a.m, -a.e), LAMBDA s :
         Let(BToInt(s.q), LAMBDA n :
           IF ~a.neg THEN n ELSE IF s.sticky THEN -n - 1 ELSE -n)))

\* the store into a Float32Array: the binary32 number nearest to a
Fround(a0) ==
  Let(a0, LAMBDA a :
    IF a.nan THEN NaN ELSE FRoundTo(a.neg, a.m, a.e, FALSE, F32Bits))

\* ------------------------------------------------------------------------
\* sampleHeight and applyEdgeFalloff.  A heightmap is a function from the
\* indices 0 .. width * height - 1 to binary32 numbers.
\* ------------------------------------------------------------------------
FOne   == FromInt(1)
FTwo   == FromInt(2)
FThree == FromInt(3)
FHalf  == FDiv(FOne, FTwo)

\* the double nearest to n / d, as a decimal literal is read
Fraction(n, d) == FDiv(FromInt(n), FromInt(d))

\* heightmap[i]: reading outside a typed array gives undefined, which the
\* arithmetic turns into NaN
ReadCell(heightmap, i) == IF i \in DOMAIN heightmap THEN heightmap[i] ELSE NaN

\* lines 173-174: ((x + halfSize) / terrainSize) * (width - 1)
GridCoordinate(x, halfSize, terrainSize, width) ==
  FMul(FDiv(FAdd(x, halfSize), terrainSize), FromInt(width - 1))

\* the coordinate left as it is
ClampNone(u, width) == u

\* lines 177-178: Math.max(0, Math.min(width - 1, u))
Clamp(u, width) == MathMax(Zero, MathMin(FromInt(width - 1), u))

\* the first weight left out: a + b * f
MixAdded(a, b, f) == FAdd(a, FMul(b, f))

\* weights exchanged: a * f + b * (1 - f)
MixSwapped(a, b, f) == FAdd(FMul(a, f), FMul(b, FSub(FOne, f)))

\* lines 197-199: a * (1 - f) + b * f
Mix(a, b, f) == FAdd(FMul(a, FSub(FOne, f)), FMul(b, f))

\* sampleHeight(heightmap, width, height, x, z, terrainSize) for numbers x,
\* z and terrainSize > 0: the value returned, the indices read and the grid
\* coordinates computed on the way
sampleHeight(heightmap, width, height, x, z, terrainSize) ==
  Let(FDiv(terrainSize, FTwo), LAMBDA halfSize :
  Let2(GridCoordinate(x, halfSize, terrainSize, width),
       GridCoordinate(z, halfSize, terrainSize, height), LAMBDA u, v :
  Let2(Clamp(u, width), Clamp(v, height), LAMBDA clampedU, clampedV :
  Let2(MathFloor(clampedU), MathFloor(clampedV), LAMBDA x0, y0 :
  Let2(Min2(x0 + 1, width - 1), Min2(y0 + 1, height - 1), LAMBDA x1, y1 :
  Let2(FSub(clampedU, FromInt(x0)), FSub(clampedV, FromInt(y0)), LAMBDA fx, fy :
    LET h00 == ReadCell(heightmap, y0 * width + x0)
        h10 == ReadCell(heightmap, y0 * width + x1)
        h01 == ReadCell(heightmap, y1 * width + x0)
        h11 == ReadCell(heightmap, y1 * width + x1)
        h0  == Mix(h00, h10, fx)
        h1  == Mix(h01, h11, fx)
    IN  [value |-> Mix(h0, h1, fy),
         reads |-> {y0 * width + x0, y0 * width + x1, y1 * width + x0, y1 * width + x1},
         u |-> u, v |-> v, fx |-> fx, fy |-> fy]))))))

\* the doubling left out: x / (width - 1) - 1
CenteredUnscaled(x, width) == FSub(FDiv(FromInt(x), FromInt(width - 1)), FOne)

\* lines 218-219: (x / (width - 1)) * 2 - 1
Centered(x, width) == FSub(FMul(FDiv(FromInt(x), FromInt(width - 1)), FTwo), FOne)

\* line 222: 1 - Math.max(Math.abs(nx), Math.abs(ny))
DistFromEdge(nx, ny) == FSub(FOne, MathMax(FAbs(nx), FAbs(ny)))

\* the comparison turned round: falloffDistance < distFromEdge
FalloffMultiplierOutside(distFromEdge, falloffDistance) ==
  Let(distFromEdge, LAMBDA d :
    IF FLess(falloffDistance, d)
      THEN Let(FDiv(d, falloffDistance), LAMBDA t :
             FMul(FMul(t, t), FSub(FThree, FMul(FTwo, t))))
      ELSE FOne)

\* lines 225-230: the multiplier of a cell at distance distFromEdge
FalloffMultiplier(distFromEdge, falloffDistance) ==
  Let(distFromEdge, LAMBDA d :
    IF FLess(d, falloffDistance)
      THEN Let(FDiv(d, falloffDistance), LAMBDA t :
             FMul(FMul(t, t), FSub(FThree, FMul(FTwo, t))))
      ELSE FOne)

\* lines 215-235: the cells of the result buffer, which starts as a copy of
\* the input; a cell beyond width * height is not visited
FalloffCells(heightmap, width, height, falloffDistance) ==
  LET Multiplier(x, y) ==
        FalloffMultiplier(DistFromEdge(Centered(x, width), Centered(y, height)),
                          falloffDistance)
  IN  [i \in DOMAIN heightmap |->
         IF i < width * height
           THEN Fround(FMul(heightmap[i], Multiplier(i % width, i \div width)))
           ELSE heightmap[i]]

\* part_002 lines 200-206: the indices calculateSlopes reads for the cell at
\* index: its own, and the +X and +Y neighbours, which are the cell itself
\* in the last column and the last row
SlopeReads(index, width, height) ==
  LET x == index % width
      y == index \div width
  IN  [h  |-> index,
       hx |-> IF x < width - 1 THEN y * width + (x + 1) ELSE index,
       hy |-> IF y < height - 1 THEN (y + 1) * width + x ELSE index]

\* part_002 lines 208-210: the gradients (hx - h) / cellSize and
\* (hy - h) / cellSize of the cell at index
SlopeGradients(heightmap, width, height, cellSize, index) ==
  Let(SlopeReads(index, width, height), LAMBDA r :
    Let(ReadCell(heightmap, r.h), LAMBDA h :
      [dx |-> FDiv(FSub(ReadCell(heightmap, r.hx), h), cellSize),
       dy |-> FDiv(FSub(ReadCell(heightmap, r.hy), h), cellSize)]))

\* part_002 lines 188-217: calculateSlopes(heightmap, width, height,
\* terrainSize), the Float32Array it returns
calculateSlopes(heightmap, width, height, terrainSize) ==
  Let(FDiv(FromInt(terrainSize), FromInt(width)), LAMBDA cellSize :
    [index \in 0 .. width * height - 1 |->
       Let(SlopeGradients(heightmap, width, height, cellSize, index), LAMBDA g :
         Let(FSqrt(FAdd(FMul(g.dx, g.dx), FMul(g.dy, g.dy))), LAMBDA slope :
           Fround(MathMin(FOne, FMul(slope, FHalf)))))])

\* part_003 lines 63, 72, 76: `heightmap[i] || 0`: NaN, the undefined of a
\* missing cell and 0 are falsy
OrZero(v) == IF v.nan \/ IsZero(v) THEN Zero ELSE v

\* part_003 lines 63-65, part_002 lines 86-88: the Y that positions.setY
\* stores for vertex i, `isNaN(height) ? 0 : height` of `heightmap[i] || 0`
safeHeightUnguarded(heightmap, i) == Fround(ReadCell(heightmap, i))
safeHeight(heightmap, i) ==
  Let(OrZero(ReadCell(heightmap, i)), LAMBDA height :
    Fround(IF height.nan THEN Zero ELSE height))

\* the literals 0.2 and 1.2 of part_003 lines 73 and 84
FFifth == Fraction(2, 10)
FSixFifths == Fraction(12, 10)

\* the dirt threshold literals: part_003 line 79 (0.88, 0.08) and part_001
\* line 417 (0.58, 0.12)
DirtGarden == [base |-> Fraction(88, 100), perHeight |-> Fraction(8, 100)]
DirtPath == [base |-> Fraction(58, 100), perHeight |-> Fraction(12, 100)]

\* part_003 line 73: (height + amplitude * 0.2) / (amplitude * 1.2)
normalizedHeight(height, amplitude) ==
  FDiv(FAdd(height, FMul(amplitude, FFifth)), FMul(amplitude, FSixFifths))

\* line 74: Math.max(0, Math.min(1, normalizedHeight))
clampedHeight(height, amplitude) ==
  MathMax(Zero, MathMin(FOne, normalizedHeight(height, amplitude)))

\* line 79: base + (clampedHeight * perHeight)
dirtThreshold(dirt, height, amplitude) ==
  FAdd(dirt.base, FMul(clampedHeight(height, amplitude), dirt.perHeight))

\* line 83: (blend - dirtThreshold) / (1.0 - dirtThreshold)
strength(blend, threshold) ==
  FDiv(FSub(blend, threshold), FSub(FOne, threshold))

\* line 84: Math.min(1, strength * 1.2)
DirtWeightUnclamped(s) == FMul(s, FSixFifths)
DirtWeight(s) == MathMin(FOne, FMul(s, FSixFifths))

\* lines 72-88: the blendWeights[i] stored for one vertex
blendWeight(dirt, heightCell, blendCell, amplitude) ==
  Let2(OrZero(heightCell), OrZero(blendCell), LAMBDA height, blend :
    Let(dirtThreshold(dirt, height, amplitude), LAMBDA threshold :
      IF FLess(threshold, blend)
        THEN Fround(DirtWeight(strength(blend, threshold)))
        ELSE Zero))

\* ------------------------------------------------------------------------
\* The noise generator as a state machine
\* ------------------------------------------------------------------------
Seeds == {-MaxSeed, -6, -1, 0, 42, MaxSeed}

SampleCoords == (-MaxCoord * Sub) .. (MaxCoord * Sub)

NoTable == << >>
NoNoise == [called |-> FALSE, x |-> 0, y |-> 0, value |-> 0]
NoPeriod == [called |-> FALSE, x |-> Zero, y |-> Zero, xShifted |-> Zero,
             yShifted |-> Zero, value |-> 0, valueX |-> 0, valueY |-> 0]

noiseVars == <<permutation, rngState, draws, noiseSeed, lastNoise, lastPeriod>>
heightmapVars == <<calls, firstCall, lastCall, otherCalls, returned>>
terrainVars == <<heap, terrain, lastSample, lastFalloff>>
groundVars == <<lastSlopes, ground>>
dragVars == <<isDraggingFlower, dragging, pointer, lastPointerUp>>
gardenVars == <<flowers, nextFlower, placingFlowerType, selectedFlower, lastClick,
                lastEdit, dragVars>>
vars == <<noiseVars, heightmapVars, terrainVars, groundVars, gardenVars>>

NoCall == [called |-> FALSE, width |-> 0, height |-> 0, options |-> << >>,
           heightmap |-> << >>, raw |-> << >>, minHeight |-> 0, maxHeight |-> 0]

NoGenerator ==
  /\ permutation = NoTable
  /\ rngState = 0
  /\ draws = << >>
  /\ noiseSeed = 0
  /\ lastNoise = NoNoise
  /\ lastPeriod = NoPeriod

NoHeightmap ==
  /\ calls = 0
  /\ firstCall = NoCall
  /\ lastCall = NoCall
  /\ otherCalls = 0
  /\ returned = << >>

NoSample == [called |-> FALSE, xh |-> 0, zh |-> 0, value |-> Zero, reads |-> {},
             u |-> Zero, v |-> Zero, fx |-> Zero, fy |-> Zero]
NoFalloff == [called |-> FALSE, input |-> 0, before |-> << >>, buffers |-> 0,
              result |-> 0, falloffDistance |-> Zero]

NoTerrain ==
  /\ heap = << >>
  /\ terrain = [width |-> 0, height |-> 0, terrainSize |-> 0]
  /\ lastSample = NoSample
  /\ lastFalloff = NoFalloff

NoSlopes == [called |-> FALSE, heightmap |-> << >>, slopes |-> << >>]

NoTerrainGround == [built |-> FALSE, dirt |-> DirtGarden, amplitude |-> Zero,
                    positions |-> << >>, blendWeights |-> << >>]

NoGround == lastSlopes = NoSlopes /\ ground = NoTerrainGround

\* App before any click: no flowers, nothing selected (null is 0 for the
\* flower type, whose ids start at 1)
Null == 0
\* selectedFlower is null, or holds one flower
NoSelection == << >>
NoClick == [called |-> FALSE, x |-> 0, z |-> 0, placing |-> Null,
            before |-> << >>, after |-> << >>, placingAfter |-> Null]

NoEdit == [op |-> "none", flowerId |-> 0, before |-> << >>, after |-> << >>,
           returned |-> << >>]
NoPointerUp == [called |-> FALSE, started |-> FALSE, ended |-> FALSE, after |-> FALSE]

NoGarden ==
  /\ flowers = << >>
  /\ nextFlower = 0
  /\ placingFlowerType = Null
  /\ selectedFlower = NoSelection
  /\ lastClick = NoClick
  /\ lastEdit = NoEdit
  /\ isDraggingFlower = FALSE
  /\ dragging = {}
  /\ pointer = "up"
  /\ lastPointerUp = NoPointerUp

InitNoise == NoGenerator /\ NoHeightmap /\ NoTerrain /\ NoGround /\ NoGarden

\* new TerrainNoise(seed): the constructor runs once in the life of the
\* object
Construct(seed) ==
  LET t == TerrainNoise(seed)
  IN  /\ permutation = NoTable
      /\ permutation' = t.permutation
      /\ rngState' = t.seed
      /\ draws' = LcgStates(seededRandom(seed), TableSize - 1)
      /\ noiseSeed' = seed
      /\ lastNoise' = NoNoise
      /\ lastPeriod' = NoPeriod
      /\ UNCHANGED <<heightmapVars, terrainVars, groundVars, gardenVars>>

\* noise.noise2D(x, y) on the generator built last
Noise2D(xq, yq) ==
  /\ permutation # NoTable
  /\ lastNoise' = [called |-> TRUE, x |-> xq, y |-> yq,
                   value |-> noise2D(permutation, xq, yq)]
  /\ lastPeriod' = NoPeriod
  /\ UNCHANGED <<permutation, rngState, draws, noiseSeed>>
  /\ UNCHANGED <<heightmapVars, terrainVars, groundVars, gardenVars>>

\* the coordinate a, a double that is a multiple of 1/Sub, as the number of
\* 1/Sub that noise2D(perm, xq, yq) takes: Math.floor(a) & 255 reads the low
\* eight bits of Math.floor(a), and the bits from the 24th up are dropped
\* here already
Quarters(a0) ==
  Let(FMul(a0, FromInt(Sub)), LAMBDA t :
    IF IsZero(t) THEN 0
    ELSE Let(IF t.e >= 0 THEN BShl(t.m, t.e) ELSE BShr(t.m, -t.e).q, LAMBDA q :
         Let((Limb(q, 1) + Base * Limb(q, 2)) % (TableSize * TableSize * TableSize * Sub),
             LAMBDA low : IF t.neg THEN -low ELSE low)))

\* the period of the claim, and 2^52 - 1/2, the largest double with a
\* fractional part
Period == FromInt(TableSize)
HugeCoord == FSub(FMul(FromInt(2 ^ 26), FromInt(2 ^ 26)), FHalf)

\* the coordinates compared: multiples of 1/Sub on both sides of 0 and at
\* the end of the table, and HugeCoord
PeriodCoords ==
  {Fraction(k, Sub) : k \in {-MaxCoord * Sub - 1, -1, 0, 3, TableSize * Sub - 2}}
    \cup {HugeCoord}

\* each coordinate with the sum the caller computes in binary64, and both
\* as noise2D takes them
PeriodPoints ==
  {Let(FAdd(x, Period), LAMBDA sum :
     [x |-> x, shifted |-> sum, xq |-> Quarters(x), shiftedq |-> Quarters(sum)]) :
   x \in PeriodCoords}

\* a caller evaluating noise2D(x, y), noise2D(x + 256, y) and
\* noise2D(x, y + 256)
NoisePeriod(px, py) ==
  /\ permutation # NoTable
  /\ lastPeriod' = [called |-> TRUE, x |-> px.x, y |-> py.x,
                    xShifted |-> px.shifted, yShifted |-> py.shifted,
                    value  |-> noise2D(permutation, px.xq, py.xq),
                    valueX |-> noise2D(permutation, px.shiftedq, py.xq),
                    valueY |-> noise2D(permutation, px.xq, py.shiftedq)]
  /\ lastNoise' = [called |-> TRUE, x |-> px.xq, y |-> py.shiftedq,
                   value |-> lastPeriod'.valueY]
  /\ UNCHANGED <<permutation, rngState, draws, noiseSeed>>
  /\ UNCHANGED <<heightmapVars, terrainVars, groundVars, gardenVars>>

NextNoise ==
  \/ \E seed \in Seeds : Construct(seed)
  \/ \E xq \in SampleCoords, yq \in SampleCoords : Noise2D(xq, yq)
  \/ \E px \in PeriodPoints, py \in PeriodPoints : NoisePeriod(px, py)

SpecNoise == InitNoise /\ [][NextNoise]_vars

\* C3: for every integer seed every draw of the constructor lies in [0, 1),
\* every shuffle index j is in 0 .. i, and the table has 512 entries whose
\* first 256 are a permutation of 0 .. 255 and whose last 256 repeat them.
TableIsPermutation ==
  permutation # NoTable =>
    /\ \A k \in DOMAIN draws : 0 <= draws[k] /\ draws[k] < LcgMod
    /\ \A k \in DOMAIN draws :
         ShuffleIndex(draws[k], TableSize - k) \in 0 .. TableSize - k
    /\ DOMAIN permutation = 0 .. 2 * TableSize - 1
    /\ {permutation[k] : k \in 0 .. TableSize - 1} = 0 .. TableSize - 1
    /\ \A k \in 0 .. TableSize - 1 : permutation[k + TableSize] = permutation[k]

\* C5: noise2D returns a value in [-1, 1] for every seed and every point.
NoiseInUnitRange ==
  lastNoise.called => (-NoiseDen <= lastNoise.value /\ lastNoise.value <= NoiseDen)

\* C5 witness: noise2D returned a value of magnitude above 1/2 at a point
\* off the lattice, for a table built from a negative seed.
LargeNoiseSampled ==
  /\ lastNoise.called
  /\ noiseSeed < 0
  /\ lastNoise.x % Sub # 0 /\ lastNoise.y % Sub # 0
  /\ 2 * Abs(lastNoise.value) > NoiseDen

\* the table indices of the last noise2D call
LastIndices ==
  NoiseIndices(permutation, Mask(lastNoise.x \div Sub), Mask(lastNoise.y \div Sub))

\* C20: for every point, negative and large coordinates included, every
\* index noise2D uses to read the table (X, X+1, a, a+1, b, b+1 and the
\* values aa, ab, ba, bb read there) lies in 0 .. 511.
IndicesInTable ==
  lastNoise.called =>
    \A f \in DOMAIN LastIndices : LastIndices[f] \in 0 .. 2 * TableSize - 1

\* C14: the table new TerrainNoise(0) builds has 512 entries, its first 256
\* are a permutation of 0 .. 255, and it is not the identity: some index i
\* below 256 has permutation[i] # i.
SeedZeroTableValid ==
  (permutation # NoTable /\ noiseSeed = 0) =>
    /\ DOMAIN permutation = 0 .. 2 * TableSize - 1
    /\ {permutation[k] : k \in 0 .. TableSize - 1} = 0 .. TableSize - 1
    /\ \E i \in 0 .. TableSize - 1 : permutation[i] # i

\* C14 witness: a generator built with seed 0 whose draws moved the last
\* entry of the table, and which has answered a noise2D call
SeedZeroShuffled ==
  /\ permutation # NoTable /\ noiseSeed = 0
  /\ Len(draws) = TableSize - 1
  /\ permutation[TableSize - 1] # TableSize - 1
  /\ lastNoise.called

\* C15 as stated: for every seed and every point, negative coordinates
\* included, noise2D(x + 256, y) = noise2D(x, y) and
\* noise2D(x, y + 256) = noise2D(x, y).
NoisePeriodic ==
  lastPeriod.called =>
    /\ lastPeriod.valueX = lastPeriod.value
    /\ lastPeriod.valueY = lastPeriod.value

\* the sum s = x + 256 was exact: s - 256, which is exact for the
\* coordinates compared, gives x back
SumExact(x, s) == FSub(s, Period) = x

\* C15 amended: for every seed and every point, negative coordinates
\* included, whose sum x + 256 is exact, noise2D(x + 256, y) = noise2D(x, y),
\* and likewise for y + 256.
NoisePeriodicWhenExact ==
  lastPeriod.called =>
    /\ SumExact(lastPeriod.x, lastPeriod.xShifted) => lastPeriod.valueX = lastPeriod.value
    /\ SumExact(lastPeriod.y, lastPeriod.yShifted) => lastPeriod.valueY = lastPeriod.value

\* C15 witness: a point with negative coordinates off the lattice whose
\* noise is not 0, compared with the points a period further in x and in y
\* for a table built from a negative seed
NegativePointShifted ==
  /\ lastPeriod.called
  /\ noiseSeed < 0
  /\ lastPeriod.x.neg /\ lastPeriod.y.neg
  /\ SumExact(lastPeriod.x, lastPeriod.xShifted)
  /\ SumExact(lastPeriod.y, lastPeriod.yShifted)
  /\ lastPeriod.value # 0
  /\ lastPeriod.valueX = lastPeriod.value /\ lastPeriod.valueY = lastPeriod.value

\* ------------------------------------------------------------------------
\* generateHeightmap calls as a state machine
\* ------------------------------------------------------------------------
Half == <<1, 2>>
\* the default options of lines 98-104, with the scale a multiple of 1/Sub
\* in place of 0.1
Options(seed, scale, octaves, redistribution) ==
  [seed |-> seed, scale |-> scale, octaves |-> octaves, persistence |-> Half,
   lacunarity |-> 2, amplitude |-> Half, redistribution |-> redistribution]

DefaultRedistribution == <<6, 5>>

\* the calls of the model: a 1 x 1 grid; a grid sampled on integer
\* coordinates only (scale Sub / Sub); grids sampled every 1 / Sub with
\* 1 .. MaxOctaves octaves and the default redistribution exponent 1.2;
\* one with the exponent 1; one with a negative seed
GenCalls ==
  {[width |-> 1, height |-> 1, options |-> Options(42, 1, 1, DefaultRedistribution)],
   [width |-> MaxDim, height |-> MaxDim,
    options |-> Options(42, Sub, MaxOctaves, DefaultRedistribution)],
   [width |-> MaxDim, height |-> MaxDim, options |-> Options(42, 1, MaxOctaves, One)],
   [width |-> MaxDim, height |-> MaxDim - 1,
    options |-> Options(-6, 1, MaxOctaves, DefaultRedistribution)]}
  \cup {[width |-> MaxDim, height |-> MaxDim,
          options |-> Options(42, 1, o, DefaultRedistribution)] : o \in 1 .. MaxOctaves}

SameArguments(a, b) ==
  a.width = b.width /\ a.height = b.height /\ a.options = b.options

\* a call of generateHeightmap: it builds its own generator (line 107) and
\* returns a new buffer
GenerateHeightmap(c) ==
  LET g   == generateHeightmap(c.width, c.height, c.options)
      ret == [called |-> TRUE, width |-> c.width, height |-> c.height,
              options |-> c.options, heightmap |-> g.heightmap, raw |-> g.raw,
              minHeight |-> g.minHeight, maxHeight |-> g.maxHeight]
  IN  /\ calls < MaxCalls
      /\ calls' = calls + 1
      /\ lastCall' = ret
      /\ firstCall' = IF calls = 0 THEN ret ELSE firstCall
      /\ otherCalls' = IF calls > 0 /\ ~SameArguments(firstCall, ret)
                          THEN otherCalls + 1 ELSE otherCalls
      /\ permutation' = g.noise.permutation
      /\ rngState' = g.noise.seed
      /\ noiseSeed' = c.options.seed
      /\ UNCHANGED <<draws, lastNoise, lastPeriod, returned>>
      /\ UNCHANGED <<terrainVars, groundVars, gardenVars>>

NextHeightmap == \E c \in GenCalls : GenerateHeightmap(c)

SpecHeightmap == InitNoise /\ [][NextHeightmap]_vars

\* C1: with the default redistribution and amplitude, every cell of the
\* returned buffer is a number (no NaN) with 0 <= value <= amplitude.
HeightsInRange ==
  (lastCall.called /\ lastCall.options.redistribution = DefaultRedistribution)
    => \A i \in DOMAIN lastCall.heightmap :
         LET v == lastCall.heightmap[i]
         IN  ~v.nan /\ v.sgn >= 0 /\ v.num <= v.den

\* C2: when the raw noise of the whole grid has max == min, the returned
\* field is zero in every cell and holds no NaN.
FlatFieldIsZero ==
  (lastCall.called /\ lastCall.minHeight = lastCall.maxHeight)
    => \A i \in DOMAIN lastCall.heightmap :
         LET v == lastCall.heightmap[i]
         IN  ~v.nan /\ v.sgn = 0 /\ v.num = 0

\* the observed minimum and maximum of the raw cell values of the last call
RawCells == {lastCall.raw[i] : i \in DOMAIN lastCall.raw}
ObservedMin == CHOOSE v \in RawCells : \A w \in RawCells : v <= w
ObservedMax == CHOOSE v \in RawCells : \A w \in RawCells : v >= w

\* C19: when the observed minimum and maximum of the raw cells differ, the
\* cell holding the minimum becomes 0 and the cell holding the maximum
\* becomes amplitude.
RemapsObservedRange ==
  (lastCall.called /\ ObservedMin # ObservedMax) =>
    \A i \in DOMAIN lastCall.heightmap :
      LET v == lastCall.heightmap[i]
      IN  /\ lastCall.raw[i] = ObservedMin => (~v.nan /\ v.sgn = 0 /\ v.num = 0)
          /\ lastCall.raw[i] = ObservedMax =>
                (~v.nan /\ v.sgn = 1 /\ v.num = v.den /\ v.amp = lastCall.options.amplitude)

Heightmap(s) == [i \in 0 .. Len(s) - 1 |-> Fraction(s[i + 1], 8)]

\* four distinct cells
GridSquare ==
  [width |-> 2, height |-> 2, terrainSize |-> 4, cells |-> Heightmap(<<1, 5, 3, 7>>)]

\* a block of four equal cells and a negative cell
GridBlock ==
  [width |-> 3, height |-> 3, terrainSize |-> 4,
   cells |-> Heightmap(<<2, 2, 5, 2, 2, -3, 4, 1, 8>>)]

\* a cell that is NaN, as generateHeightmap can return it
GridHole ==
  [width |-> 3, height |-> 2, terrainSize |-> 4,
   cells |-> [Heightmap(<<4, 0, 6, 1, 3, 8>>) EXCEPT ![1] = NaN]]

\* 23 columns on a terrain of size 11: the lattice points are 1/2 apart
GridWide ==
  [width |-> 23, height |-> 2, terrainSize |-> 11,
   cells |-> [i \in 0 .. 45 |-> Fraction(((3 * i) % 8) + 1, 8)]]

\* four cells holding the binary32 number nearest to 0.7, on a terrain of
\* size 3
GridLevel ==
  [width |-> 2, height |-> 2, terrainSize |-> 3,
   cells |-> [i \in 0 .. 3 |-> Fround(Fraction(7, 10))]]

SampleGrids == {GridSquare, GridBlock, GridHole, GridWide, GridLevel}

\* the coordinates sampled on a terrain of size T, in halves: every
\* multiple of 1/2 up to MaxOutside beyond the extent, and two far away
SampleHalves(T) ==
  ((-T - 2 * MaxOutside) .. (T + 2 * MaxOutside)) \cup {-2 * T * FarOutside, 2 * T * FarOutside}

Terrain(g) == [width |-> g.width, height |-> g.height, terrainSize |-> g.terrainSize]

InitSample ==
  /\ NoGenerator /\ NoHeightmap
  /\ \E g \in SampleGrids : heap = << g.cells >> /\ terrain = Terrain(g)
  /\ lastSample = NoSample
  /\ lastFalloff = NoFalloff
  /\ NoGround /\ NoGarden

\* one call sampleHeight(heightmap, width, height, xh / 2, zh / 2, terrainSize)
SampleHeight(xh, zh) ==
  /\ ~lastSample.called
  /\ \E s \in {sampleHeight(heap[1], terrain.width, terrain.height,
                            Fraction(xh, 2), Fraction(zh, 2),
                            FromInt(terrain.terrainSize))} :
       lastSample' = [called |-> TRUE, xh |-> xh, zh |-> zh, value |-> s.value,
                      reads |-> s.reads, u |-> s.u, v |-> s.v,
                      fx |-> s.fx, fy |-> s.fy]
  /\ UNCHANGED <<heap, terrain, lastFalloff>>
  /\ UNCHANGED <<noiseVars, heightmapVars, groundVars, gardenVars>>

NextSample ==
  \E xh \in SampleHalves(terrain.terrainSize), zh \in SampleHalves(terrain.terrainSize) :
    SampleHeight(xh, zh)

SpecSample == InitSample /\ [][NextSample]_vars

\* ------------------------------------------------------------------------
\* applyEdgeFalloff calls as a state machine
\* ------------------------------------------------------------------------
\* a view of the same memory as the buffer src
Float32ArrayView(h, src) == [heap |-> h, id |-> src]

\* line 108: new Float32Array(width * height), a buffer of its own for the
\* cells the call computes
SharedFloat32Array(h, cells) ==
  IF h = << >> THEN [heap |-> << cells >>, id |-> 1]
  ELSE [heap |-> [h EXCEPT ![1] = cells], id |-> 1]
AllocFloat32Array(h, cells) == [heap |-> Append(h, cells), id |-> Len(h) + 1]

\* line 213: new Float32Array(heightmap), a new buffer with a copy of the
\* cells of src
NewFloat32Array(h, src) == [heap |-> Append(h, h[src]), id |-> Len(h) + 1]

\* applyEdgeFalloff on the buffer src of the heap h: the heap afterwards
\* and the buffer returned
applyEdgeFalloff(h, src, width, height, falloffDistance) ==
  Let(NewFloat32Array(h, src), LAMBDA r :
    [heap   |-> [r.heap EXCEPT ![r.id] =
                   FalloffCells(r.heap[r.id], width, height, falloffDistance)],
     result |-> r.id])

\* one column
GridColumn ==
  [width |-> 1, height |-> 3, terrainSize |-> 4, cells |-> Heightmap(<<3, 5, 8>>)]

\* the uniform 10 x 10 field of 1.0
GridUniform ==
  [width |-> 10, height |-> 10, terrainSize |-> 18, cells |-> [i \in 0 .. 99 |-> FOne]]

\* cells off the border at the distances 1/2 and 2/3 from the edge
GridField ==
  [width |-> 5, height |-> 4, terrainSize |-> 4,
   cells |-> [i \in 0 .. 19 |-> Fraction(((5 * i) % 17) - 4, 8)]]

FalloffGrids == {GridSquare, GridBlock, GridHole, GridColumn, GridField, GridUniform}

ScenarioDistance == Fraction(1, 5)
DefaultDistance == Fraction(3, 20)

\* the falloff distances tried; the 10 x 10 field is run with 0.2 only
FalloffDistances ==
  IF terrain = Terrain(GridUniform) THEN {ScenarioDistance}
  ELSE {DefaultDistance, ScenarioDistance, Fraction(3, 4), Zero}

InitFalloff ==
  /\ NoGenerator /\ NoHeightmap
  /\ \E g \in FalloffGrids : heap = << g.cells >> /\ terrain = Terrain(g)
  /\ lastSample = NoSample
  /\ lastFalloff = NoFalloff
  /\ NoGround /\ NoGarden

\* one call applyEdgeFalloff(buffer src, width, height, falloffDistance)
ApplyEdgeFalloff(src, falloffDistance) ==
  /\ Len(heap) < MaxBuffers
  /\ \E r \in {applyEdgeFalloff(heap, src, terrain.width, terrain.height,
                                falloffDistance)} :
       /\ heap' = r.heap
       /\ lastFalloff' = [called |-> TRUE, input |-> src, before |-> heap[src],
                          buffers |-> Len(heap), result |-> r.result,
                          falloffDistance |-> falloffDistance]
  /\ UNCHANGED <<terrain, lastSample>>
  /\ UNCHANGED <<noiseVars, heightmapVars, groundVars, gardenVars>>

NextFalloff ==
  \E src \in DOMAIN heap, f \in FalloffDistances : ApplyEdgeFalloff(src, f)

SpecFalloff == InitFalloff /\ [][NextFalloff]_vars

\* ------------------------------------------------------------------------
\* Properties of sampleHeight
\* ------------------------------------------------------------------------
\* whether xh / 2 is the world position of a lattice point of an axis of n
\* cells, and which one: u = (xh / 2 + T / 2) / T * (n - 1) in exact
\* arithmetic
OnLattice(xh, n) ==
  LET T == terrain.terrainSize
  IN  -T <= xh /\ xh <= T /\ ((xh + T) * (n - 1)) % (2 * T) = 0

LatticeIndex(xh, n) == ((xh + terrain.terrainSize) * (n - 1)) \div (2 * terrain.terrainSize)

\* whether xh / 2 lies half way between two neighbouring lattice points
OnMidpoint(xh, n) ==
  LET T == terrain.terrainSize
  IN  -T <= xh /\ xh <= T /\ ((xh + T) * (n - 1)) % (2 * T) = T

\* the sample was taken at a lattice point
LatticeSampled ==
  /\ lastSample.called
  /\ OnLattice(lastSample.xh, terrain.width)
  /\ OnLattice(lastSample.zh, terrain.height)

\* the cell of that lattice point
LatticeCell ==
  heap[1][LatticeIndex(lastSample.zh, terrain.height) * terrain.width
          + LatticeIndex(lastSample.xh, terrain.width)]

\* the sample was taken at the midpoint of four cells that hold one number
EqualMidpointSampled ==
  /\ lastSample.called
  /\ OnMidpoint(lastSample.xh, terrain.width)
  /\ OnMidpoint(lastSample.zh, terrain.height)
  /\ LET k == LatticeIndex(lastSample.xh, terrain.width)
         l == LatticeIndex(lastSample.zh, terrain.height)
         c == heap[1][l * terrain.width + k]
     IN  /\ ~c.nan
         /\ \A dx \in 0 .. 1, dy \in 0 .. 1 : heap[1][(l + dy) * terrain.width + k + dx] = c

MidpointCell ==
  heap[1][LatticeIndex(lastSample.zh, terrain.height) * terrain.width
          + LatticeIndex(lastSample.xh, terrain.width)]

\* the grid coordinates sampleHeight computed are the lattice indices
ExactCoordinates ==
  /\ lastSample.u = FromInt(LatticeIndex(lastSample.xh, terrain.width))
  /\ lastSample.v = FromInt(LatticeIndex(lastSample.zh, terrain.height))

\* |a - b| <= 2^-48 * (width + height) * the largest magnitude among the
\* cells read
WithinTolerance(a, b) ==
  LET RECURSIVE Largest(_)
      Largest(S) == IF S = {} THEN Zero
                    ELSE LET i == CHOOSE i \in S : TRUE
                         IN  MathMax(FAbs(heap[1][i]), Largest(S \ {i}))
  IN  FLessEq(FAbs(FSub(a, b)),
              FMul(FMul(FRoundTo(FALSE, << 1 >>, -48, FALSE, F64Bits),
                        FromInt(terrain.width + terrain.height)),
                   Largest(lastSample.reads)))

\* C6 as stated: at the world position of a lattice point sampleHeight
\* returns exactly the cell of that point, and at the midpoint of four
\* equal cells it returns exactly their value.
LatticeExact ==
  /\ LatticeSampled => lastSample.value = LatticeCell
  /\ EqualMidpointSampled => lastSample.value = MidpointCell

\* C6 amended: when the four cells read are numbers, sampleHeight at the
\* world position of a lattice point returns the cell of that point within
\* 2^-48 * (width + height) times the largest magnitude read, and exactly
\* when the grid coordinates it computed are the lattice indices, which
\* they are at the four corners; at the midpoint of four equal cells it
\* returns their value within the same tolerance; when a cell read is NaN
\* it returns NaN.
LatticeWithinTolerance ==
  /\ (lastSample.called /\ \E i \in lastSample.reads : heap[1][i].nan)
       => lastSample.value.nan
  /\ (lastSample.called /\ \A i \in lastSample.reads : ~heap[1][i].nan) =>
    /\ LatticeSampled =>
         /\ WithinTolerance(lastSample.value, LatticeCell)
         /\ ExactCoordinates => lastSample.value = LatticeCell
         /\ (/\ lastSample.xh \in {-terrain.terrainSize, terrain.terrainSize}
             /\ lastSample.zh \in {-terrain.terrainSize, terrain.terrainSize})
              => ExactCoordinates
    /\ EqualMidpointSampled => WithinTolerance(lastSample.value, MidpointCell)

\* C6 witness: a lattice point whose grid coordinate is not computed
\* exactly, so that the sample is close to the cell without being equal.
InexactLatticeSample ==
  /\ LatticeSampled
  /\ \A i \in lastSample.reads : ~heap[1][i].nan
  /\ ~ExactCoordinates
  /\ lastSample.value # LatticeCell
  /\ WithinTolerance(lastSample.value, LatticeCell)

\* the coordinate xh / 2 moved to the nearest one within the terrain
NearestInside(xh) == Max2(-terrain.terrainSize, Min2(terrain.terrainSize, xh))

\* C7: for any world coordinates sampleHeight reads only indices in
\* 0 .. width * height - 1 and returns what it returns at the nearest
\* coordinates within the terrain.
SampleClamped ==
  lastSample.called =>
    /\ lastSample.reads \subseteq 0 .. terrain.width * terrain.height - 1
    /\ lastSample.value =
         sampleHeight(heap[1], terrain.width, terrain.height,
                      Fraction(NearestInside(lastSample.xh), 2),
                      Fraction(NearestInside(lastSample.zh), 2),
                      FromInt(terrain.terrainSize)).value

\* C7 witness: a sample far beyond one corner returns the nonzero cell of
\* that corner.
FarOutsideSampled ==
  /\ lastSample.called
  /\ lastSample.xh = 2 * terrain.terrainSize * FarOutside
  /\ lastSample.zh = -2 * terrain.terrainSize * FarOutside
  /\ lastSample.value = heap[1][terrain.width - 1]
  /\ ~IsZero(lastSample.value) /\ ~lastSample.value.nan

\* the cells the last sample read, the smallest and the largest of them
\* where all are numbers, and the largest magnitude among them
ReadCells == {heap[1][i] : i \in lastSample.reads}
SmallestRead == CHOOSE c \in ReadCells : \A d \in ReadCells : FLessEq(c, d)
LargestRead == CHOOSE c \in ReadCells : \A d \in ReadCells : FLessEq(d, c)
LargestMagnitude == FAbs(CHOOSE c \in ReadCells : \A d \in ReadCells : FLessEq(FAbs(d), FAbs(c)))

\* 2^-50 times the largest magnitude among the cells read
SampleSlack == FMul(FRoundTo(FALSE, << 1 >>, -50, FALSE, F64Bits), LargestMagnitude)

\* lines 187-188: both interpolation weights are in [0, 1)
WeightsInUnitRange ==
  /\ FLessEq(Zero, lastSample.fx) /\ FLess(lastSample.fx, FOne)
  /\ FLessEq(Zero, lastSample.fy) /\ FLess(lastSample.fy, FOne)

\* C24 as stated: for every (x, z) the value sampleHeight returns lies
\* between the minimum and the maximum of the four cells it reads, and both
\* interpolation weights are in [0, 1).
SampleBetweenCorners ==
  lastSample.called =>
    /\ WeightsInUnitRange
    /\ \A c \in ReadCells : ~c.nan
    /\ FLessEq(SmallestRead, lastSample.value)
    /\ FLessEq(lastSample.value, LargestRead)

\* C24 amended: when the four cells read are numbers the value returned
\* lies between their minimum and their maximum within 2^-50 times the
\* largest magnitude among them; when a cell read is NaN the value is NaN;
\* both interpolation weights are in [0, 1).
SampleNearlyBetweenCorners ==
  lastSample.called =>
    /\ WeightsInUnitRange
    /\ IF \E c \in ReadCells : c.nan THEN lastSample.value.nan
       ELSE /\ FLessEq(FSub(SmallestRead, SampleSlack), lastSample.value)
            /\ FLessEq(lastSample.value, FAdd(LargestRead, SampleSlack))

\* C24 witness: a sample taken strictly between two columns of equal cells
\* came out above the largest cell read, within the tolerance.
SampleAboveCorners ==
  /\ lastSample.called
  /\ \A c \in ReadCells : ~c.nan
  /\ FLess(Zero, lastSample.fx)
  /\ FLess(LargestRead, lastSample.value)
  /\ FLessEq(lastSample.value, FAdd(LargestRead, SampleSlack))

\* ------------------------------------------------------------------------
\* Properties of applyEdgeFalloff
\* ------------------------------------------------------------------------
FalloffInput == lastFalloff.before
FalloffOutput == heap[lastFalloff.result]

OnBorder(i) ==
  \/ i % terrain.width \in {0, terrain.width - 1}
  \/ i \div terrain.width \in {0, terrain.height - 1}

GridCells == 0 .. terrain.width * terrain.height - 1

\* C8: applyEdgeFalloff returns a buffer that did not exist before the call
\* and leaves every cell of its input as it was.
FalloffReturnsNewBuffer ==
  lastFalloff.called =>
    /\ lastFalloff.result > lastFalloff.buffers
    /\ lastFalloff.result # lastFalloff.input
    /\ heap[lastFalloff.input] = FalloffInput

\* C8 witness: a call whose result differs from its input.
FalloffChangedCells ==
  /\ lastFalloff.called
  /\ FalloffOutput # FalloffInput
  /\ heap[lastFalloff.input] = FalloffInput

\* C9: a cell whose distFromEdge is at least falloffDistance keeps its
\* value; a cell of a border row or column gets a magnitude that is not
\* greater than the one it had; and the uniform 10 x 10 field of
\* 1.0 with falloffDistance 0.2 keeps 1.0 at (5, 5) and gets less at (0, 0).
FalloffKeepsCentre ==
  lastFalloff.called =>
    /\ \A i \in GridCells :
         LET d == DistFromEdge(Centered(i % terrain.width, terrain.width),
                               Centered(i \div terrain.width, terrain.height))
         IN  /\ FLessEq(lastFalloff.falloffDistance, d) => FalloffOutput[i] = FalloffInput[i]
             /\ OnBorder(i) => ~FLess(FAbs(FalloffInput[i]), FAbs(FalloffOutput[i]))
    /\ (/\ terrain = Terrain(GridUniform)
        /\ FalloffInput = GridUniform.cells
        /\ lastFalloff.falloffDistance = ScenarioDistance)
         => /\ FalloffOutput[55] = FOne
            /\ FLess(FalloffOutput[0], FalloffOutput[55])

\* C9 witness: the 10 x 10 scenario has run on the uniform field.
ScenarioRun ==
  /\ lastFalloff.called
  /\ terrain = Terrain(GridUniform)
  /\ FalloffInput = GridUniform.cells
  /\ lastFalloff.falloffDistance = ScenarioDistance
  /\ FalloffOutput[0] = Zero
  /\ FalloffOutput[55] = FOne

\* C10 as stated: for width and height of at least 2 and every
\* falloffDistance, every cell of the outermost rows and columns of the
\* result is zero.
BorderIsZero ==
  (lastFalloff.called /\ terrain.width >= 2 /\ terrain.height >= 2) =>
    \A i \in GridCells : OnBorder(i) => IsZero(FalloffOutput[i])

\* C10 amended: for width and height of at least 2 and falloffDistance > 0,
\* every cell of the outermost rows and columns of the result is its input
\* times 0: zero where the input holds a number, NaN where it holds NaN.
BorderTimesZero ==
  (/\ lastFalloff.called
   /\ terrain.width >= 2 /\ terrain.height >= 2
   /\ FLess(Zero, lastFalloff.falloffDistance)) =>
    \A i \in GridCells :
      OnBorder(i) => IF FalloffInput[i].nan THEN FalloffOutput[i].nan
                     ELSE IsZero(FalloffOutput[i])

\* C10 witness: a positive falloffDistance has brought a nonzero border
\* cell to zero.
BorderCellZeroed ==
  /\ lastFalloff.called
  /\ terrain.width >= 2 /\ terrain.height >= 2
  /\ FLess(Zero, lastFalloff.falloffDistance)
  /\ \E i \in GridCells :
       OnBorder(i) /\ ~FalloffInput[i].nan /\ ~IsZero(FalloffInput[i])
                   /\ IsZero(FalloffOutput[i])

\* ------------------------------------------------------------------------
\* calculateSlopes calls as a state machine
\* ------------------------------------------------------------------------
\* the cells of the 2 x 2 heightmaps tried: level, a gentle step, NaN
SlopeValues == {Zero, Fraction(1, 8), NaN}

\* every 2 x 2 heightmap over SlopeValues on a terrain of size 2; a constant
\* field that is not zero; a field with steps steeper than 2; and the
\* grids of 3 x 3, 3 x 2 and 5 x 4 cells
SlopeGrids ==
  {[width |-> 2, height |-> 2, terrainSize |-> 2, cells |-> c] :
     c \in [0 .. 3 -> SlopeValues]}
  \cup {[width |-> 2, height |-> 2, terrainSize |-> 2, cells |-> Heightmap(<<-24, -24, -24, -24>>)],
        [width |-> 2, height |-> 2, terrainSize |-> 2, cells |-> Heightmap(<<0, 32, -24, 8>>)],
        GridBlock, GridHole, GridField}

InitSlopes ==
  /\ NoGenerator /\ NoHeightmap
  /\ \E g \in SlopeGrids : heap = << g.cells >> /\ terrain = Terrain(g)
  /\ lastSample = NoSample
  /\ lastFalloff = NoFalloff
  /\ NoGround /\ NoGarden

\* one call calculateSlopes(heightmap, width, height, terrainSize)
CalculateSlopes ==
  /\ ~lastSlopes.called
  /\ lastSlopes' = [called |-> TRUE, heightmap |-> heap[1],
                    slopes |-> calculateSlopes(heap[1], terrain.width, terrain.height,
                                               terrain.terrainSize)]
  /\ UNCHANGED <<noiseVars, heightmapVars, terrainVars, ground, gardenVars>>

NextSlopes == CalculateSlopes

SpecSlopes == InitSlopes /\ [][NextSlopes]_vars

\* C11: calculateSlopes returns width * height values, each a number in
\* [0, 1], and every slope of a heightmap whose cells all hold the same
\* number is 0.
SlopesInUnitRange ==
  lastSlopes.called =>
    /\ DOMAIN lastSlopes.slopes = 0 .. terrain.width * terrain.height - 1
    /\ \A i \in DOMAIN lastSlopes.slopes :
         FLessEq(Zero, lastSlopes.slopes[i]) /\ FLessEq(lastSlopes.slopes[i], FOne)
    /\ (~lastSlopes.heightmap[0].nan
        /\ \A i \in DOMAIN lastSlopes.heightmap :
             lastSlopes.heightmap[i] = lastSlopes.heightmap[0])
         => \A i \in DOMAIN lastSlopes.slopes : IsZero(lastSlopes.slopes[i])

\* the finite half of C11: the slopes of a heightmap without NaN are in
\* [0, 1], and zero where the field is constant
FiniteSlopesInUnitRange ==
  (lastSlopes.called /\ \A i \in DOMAIN lastSlopes.heightmap : ~lastSlopes.heightmap[i].nan)
    => SlopesInUnitRange

\* the gradients calculateSlopes took at the cell of the last call
LastGradients(index) ==
  SlopeGradients(lastSlopes.heightmap, terrain.width, terrain.height,
                 FDiv(FromInt(terrain.terrainSize), FromInt(terrain.width)), index)

\* C21: calculateSlopes reads only indices in 0 .. width * height - 1, a
\* cell of the last column has dx = 0, a cell of the last row has dy = 0,
\* and the slope of the cell (width - 1, height - 1) is 0.
ForwardDifferencesClamped ==
  lastSlopes.called =>
    \A i \in 0 .. terrain.width * terrain.height - 1 :
      LET r == SlopeReads(i, terrain.width, terrain.height)
      IN  /\ {r.h, r.hx, r.hy} \subseteq 0 .. terrain.width * terrain.height - 1
          /\ (i % terrain.width = terrain.width - 1) => IsZero(LastGradients(i).dx)
          /\ (i \div terrain.width = terrain.height - 1) => IsZero(LastGradients(i).dy)
          /\ (i = terrain.width * terrain.height - 1) => IsZero(lastSlopes.slopes[i])

\* the finite half of C21: the same for a heightmap without NaN
FiniteDifferencesClamped ==
  (lastSlopes.called /\ \A i \in DOMAIN lastSlopes.heightmap : ~lastSlopes.heightmap[i].nan)
    => ForwardDifferencesClamped

\* ------------------------------------------------------------------------
\* TerrainGround geometry builds as a state machine.  heap[1] is the
\* heightmap after applyEdgeFalloff and heap[2] the blend noise, both
\* resolution x resolution buffers of binary32 numbers, NaN included as
\* generateHeightmap can return it.
\* ------------------------------------------------------------------------
\* the binary32 number nearest to n / 1000
Milli(n) == Fround(Fraction(n, 1000))

\* the amplitude prop: 0, the default 0.9, 1 and 3
Amplitudes == {Zero, Fraction(9, 10), FOne, FThree}

\* heightmaps of resolution 2: heights within [0, 0.9], a flat field, and
\* fields with NaN cells and heights outside [0, amplitude]
GroundHeights ==
  {<<Zero, Milli(450), Milli(900), Milli(125)>>,
   <<Zero, Zero, Zero, Zero>>,
   <<NaN, FOne, FThree, Milli(-125)>>,
   <<NaN, NaN, Milli(300), FTwo>>}

\* blend noise of resolution 2: values of [0, 1] on both sides of the dirt
\* thresholds, NaN cells, and a value above 1
GroundBlends ==
  {<<Zero, Milli(500), Milli(900), FOne>>,
   <<Milli(600), Milli(650), Milli(700), Milli(950)>>,
   <<NaN, Milli(890), Milli(920), Milli(970)>>,
   <<Milli(880), Milli(580), FOne, FOne>>,
   <<Milli(1500), Zero, Milli(590), Milli(999)>>}

\* the Float32Array holding the cells s
Buffer(s) == [i \in 0 .. Len(s) - 1 |-> s[i + 1]]

InitGround ==
  /\ NoGenerator /\ NoHeightmap
  /\ \E h \in GroundHeights, b \in GroundBlends :
       heap = << Buffer(h), Buffer(b) >>
  /\ terrain = [width |-> 2, height |-> 2, terrainSize |-> 40]
  /\ lastSample = NoSample
  /\ lastFalloff = NoFalloff
  /\ NoGround /\ NoGarden

\* positions.count of PlaneGeometry(size, size, resolution - 1, resolution - 1)
Vertices == 0 .. terrain.width * terrain.height - 1

\* the useMemo body of TerrainGround from the geometry on: the Y
\* coordinates and the blendWeight attribute
BuildTerrainGround ==
  /\ ~ground.built
  /\ \E dirt \in {DirtGarden, DirtPath}, amplitude \in Amplitudes :
       ground' = [built |-> TRUE, dirt |-> dirt, amplitude |-> amplitude,
                  positions |-> [i \in Vertices |-> safeHeight(heap[1], i)],
                  blendWeights |->
                    [i \in Vertices |->
                       blendWeight(dirt, ReadCell(heap[1], i), ReadCell(heap[2], i),
                                   amplitude)]]
  /\ UNCHANGED <<noiseVars, heightmapVars, terrainVars, lastSlopes, gardenVars>>

NextGround == BuildTerrainGround

SpecGround == InitGround /\ [][NextGround]_vars

\* the vertices the claim speaks of: height in [0, amplitude], blend noise
\* in [0, 1]
InClaimedRange(i) ==
  /\ FLessEq(Zero, heap[1][i]) /\ FLessEq(heap[1][i], ground.amplitude)
  /\ FLessEq(Zero, heap[2][i]) /\ FLessEq(heap[2][i], FOne)

VertexThreshold(i) == dirtThreshold(ground.dirt, OrZero(heap[1][i]), ground.amplitude)
VertexStrength(i) == strength(OrZero(heap[2][i]), VertexThreshold(i))

\* C12: every blendWeight written for a vertex whose height is in
\* [0, amplitude] and whose blend noise is in [0, 1] is in [0, 1]: it is 0
\* when the blend noise is at or below the dirt threshold, and above it the
\* strength is in (0, 1] and the weight is min(1, 1.2 * strength).
BlendWeightInUnitRange ==
  ground.built =>
    \A i \in Vertices :
      InClaimedRange(i) =>
        /\ FLessEq(Zero, ground.blendWeights[i])
        /\ FLessEq(ground.blendWeights[i], FOne)
        /\ FLessEq(heap[2][i], VertexThreshold(i)) => IsZero(ground.blendWeights[i])
        /\ FLess(VertexThreshold(i), heap[2][i]) =>
             /\ FLess(Zero, VertexStrength(i))
             /\ FLessEq(VertexStrength(i), FOne)
             /\ ground.blendWeights[i]
                  = Fround(MathMin(FOne, FMul(VertexStrength(i), FSixFifths)))

\* a vertex in the claimed range whose 1.2 * strength exceeds 1 and whose
\* weight is 1, and one whose weight is strictly between 0 and 1
WeightClamped ==
  /\ ground.built
  /\ \E i \in Vertices :
       /\ InClaimedRange(i)
       /\ FLess(VertexThreshold(i), heap[2][i])
       /\ FLess(FOne, FMul(VertexStrength(i), FSixFifths))
       /\ ground.blendWeights[i] = FOne
  /\ \E i \in Vertices :
       /\ InClaimedRange(i)
       /\ FLess(Zero, ground.blendWeights[i]) /\ FLess(ground.blendWeights[i], FOne)

\* C13: no Y coordinate written into the position buffer is NaN, and the Y
\* of a vertex whose heightmap cell is NaN or missing is 0.
PositionsNeverNaN ==
  ground.built =>
    \A i \in Vertices :
      /\ ~ground.positions[i].nan
      /\ ReadCell(heap[1], i).nan => IsZero(ground.positions[i])

\* a geometry built from a heightmap with a NaN cell, next to a cell whose
\* height is kept
NaNHeightFlattened ==
  /\ ground.built
  /\ \E i, j \in Vertices :
       /\ heap[1][i].nan /\ IsZero(ground.positions[i])
       /\ ~IsZero(heap[1][j]) /\ ground.positions[j] = heap[1][j]

\* ------------------------------------------------------------------------
\* The buffers generateHeightmap returns, as objects of the heap that the
\* callers write into
\* ------------------------------------------------------------------------
\* the calls with one row of cells
BufferCalls == {c \in GenCalls : c.height < MaxDim}

\* a number a caller stores into a returned buffer: 7/8
WrittenCell == [nan |-> FALSE, sgn |-> 1, num |-> 7, den |-> 8, exp |-> One, amp |-> One]

\* generateHeightmap(width, height, options): a generator of its own (line
\* 107) and a buffer of its own (line 108)
GenerateBuffer(c) ==
  /\ Len(returned) < MaxBuffers
  /\ \E g \in {generateHeightmap(c.width, c.height, c.options)} :
       /\ \E r \in {AllocFloat32Array(heap, g.heightmap)} :
            /\ heap' = r.heap
            /\ returned' = Append(returned, [buffer |-> r.id, call |-> c])
       /\ permutation' = g.noise.permutation
       /\ rngState' = g.noise.seed
  /\ noiseSeed' = c.options.seed
  /\ lastNoise' = NoNoise
  /\ lastPeriod' = NoPeriod
  /\ UNCHANGED <<draws, calls, firstCall, lastCall, otherCalls>>
  /\ UNCHANGED <<terrain, lastSample, lastFalloff, groundVars, gardenVars>>

\* heightmap[0] = 7/8 by the caller that holds the k-th returned buffer
WriteBuffer(k) ==
  /\ k \in DOMAIN returned
  /\ heap' = [heap EXCEPT ![returned[k].buffer][1] = WrittenCell]
  /\ UNCHANGED <<noiseVars, heightmapVars, terrain, lastSample, lastFalloff, groundVars, gardenVars>>

NextBuffers ==
  \/ \E c \in BufferCalls : GenerateBuffer(c)
  \/ \E k \in 1 .. MaxBuffers : WriteBuffer(k)
  \/ \E xq \in {-1, 2}, yq \in {3} : Noise2D(xq, yq)

SpecBuffers == InitNoise /\ [][NextBuffers]_vars

\* C16: no step after the construction of a generator changes its table
\* (noise2D leaves it as it is); a generateHeightmap call returns a buffer
\* that no earlier call returned and leaves the buffers of the heap as they
\* are; and a step that changes a buffer changes no other buffer.
BuffersNotShared ==
  [][/\ (returned' = returned /\ permutation # NoTable) => permutation' = permutation
     /\ returned' # returned =>
          /\ returned'[Len(returned')].buffer \notin DOMAIN heap
          /\ \A k \in DOMAIN returned : returned'[k] = returned[k]
          /\ \A id \in DOMAIN heap : heap'[id] = heap[id]
     /\ \A id \in DOMAIN heap :
          heap'[id] # heap[id] =>
            \A other \in DOMAIN heap \ {id} : heap'[other] = heap[other]]_vars

\* C16 witness: two calls with the same arguments returned two buffers, a
\* caller wrote into one of them and the other one kept its cells, and
\* noise2D was called on the generator built last
BufferWrittenAlone ==
  /\ lastNoise.called
  /\ \E i, j \in DOMAIN returned :
       /\ i # j
       /\ returned[i].call = returned[j].call
       /\ returned[i].buffer # returned[j].buffer
       /\ heap[returned[i].buffer][1] = WrittenCell
       /\ heap[returned[j].buffer][1] # WrittenCell

\* ------------------------------------------------------------------------
\* The flower garden of App: the handlers of its buttons, of the ground
\* plane and of the flowers, each run as one step
\* ------------------------------------------------------------------------
\* part_008 lines 39-66: the ids of FLOWER_DEFINITIONS (daisy, rose,
\* sunflower)
FlowerDefinitionIds == {1, 2, 3}

\* find without its predicate: the first definition, whatever the id
getFlowerDefinitionFirst(id) == 1

\* part_008 lines 71-73: the definition with this id, or undefined
getFlowerDefinition(id) == IF id \in FlowerDefinitionIds THEN id ELSE Null

\* what reading a property gives that the object literal did not set
Missing == "undefined"

\* FlowerGarden.tsx lines 114-122: the object literal newFlower; n stands
\* for the string generateFlowerId returns, a new one at each call
NewFlower(n, flowerDefinitionId, position) ==
  [id |-> n, flowerDefinitionId |-> flowerDefinitionId, position |-> position,
   state |-> Missing]

\* FlowerGarden.tsx lines 107-126: the flowers list after
\* addFlower(flowerDefinitionId, position)
addFlowerNone(list, n, flowerDefinitionId, position) == list
addFlower(list, n, flowerDefinitionId, position) ==
  IF getFlowerDefinition(flowerDefinitionId) = Null THEN list
  ELSE Append(list, NewFlower(n, flowerDefinitionId, position))

\* FlowerGarden.tsx lines 112 and 125: what addFlower returns, null
\* (no element) or newFlower
addFlowerReturn(n, flowerDefinitionId, position) ==
  IF getFlowerDefinition(flowerDefinitionId) = Null THEN << >>
  ELSE << NewFlower(n, flowerDefinitionId, position) >>

\* lines 128-130: prev.filter(f => f.id !== flowerId)
removeFlower(list, flowerId) == SelectSeq(list, LAMBDA f : f.id # flowerId)

\* the test of the id left out: prev.map(f => ({...f, ...updates}))
updateFlowerAll(list, flowerId, updates) ==
  [i \in DOMAIN list |-> updates @@ list[i]]

\* lines 132-136: prev.map(f => f.id === flowerId ? {...f, ...updates} : f)
updateFlower(list, flowerId, updates) ==
  [i \in DOMAIN list |-> IF list[i].id = flowerId THEN updates @@ list[i] ELSE list[i]]

\* e.point.x and e.point.z of the clicks and drags tried
GroundPoints == {[x |-> -1, z |-> 3], [x |-> 2, z |-> 3]}

\* App.tsx line 139: a button of the Add Flowers panel
SelectFlowerType(id) ==
  /\ placingFlowerType' = id
  /\ UNCHANGED <<flowers, nextFlower, selectedFlower, lastClick>>
  /\ UNCHANGED <<noiseVars, heightmapVars, terrainVars, groundVars, lastEdit, dragVars>>

\* App.tsx lines 616-623: onClick of the ground plane at the point p
GroundClick(p) ==
  /\ nextFlower < MaxFlowers
  /\ IF placingFlowerType # Null
       THEN /\ flowers' = addFlower(flowers, nextFlower + 1, placingFlowerType,
                                    [x |-> p.x, y |-> 0, z |-> p.z])
            /\ nextFlower' = nextFlower + 1
            /\ placingFlowerType' = Null
       ELSE UNCHANGED <<flowers, nextFlower, placingFlowerType>>
  /\ lastClick' = [called |-> TRUE, x |-> p.x, z |-> p.z, placing |-> placingFlowerType,
                   before |-> flowers, after |-> flowers',
                   placingAfter |-> placingFlowerType']
  /\ UNCHANGED selectedFlower
  /\ UNCHANGED <<noiseVars, heightmapVars, terrainVars, groundVars, lastEdit, dragVars>>

\* App.tsx lines 639-650: onClick of the i-th flower, which FlowerModel
\* calls for a quick click on a draggable flower (draggable is
\* !placingFlowerType, line 656)
FlowerClick(i) ==
  /\ i \in DOMAIN flowers
  /\ placingFlowerType = Null
  /\ selectedFlower' = << flowers[i] >>
  /\ placingFlowerType' = Null
  /\ UNCHANGED <<flowers, nextFlower, lastClick>>
  /\ UNCHANGED <<noiseVars, heightmapVars, terrainVars, groundVars, lastEdit, dragVars>>

\* App.tsx lines 652-655: onDragEnd of the i-th flower at the point p
DragEnd(i, p) ==
  /\ i \in DOMAIN flowers
  /\ placingFlowerType = Null
  /\ flowers' = updateFlower(flowers, flowers[i].id,
                             [position |-> [x |-> p.x, y |-> 0, z |-> p.z]])
  /\ UNCHANGED <<nextFlower, placingFlowerType, selectedFlower, lastClick>>
  /\ UNCHANGED <<noiseVars, heightmapVars, terrainVars, groundVars, lastEdit, dragVars>>

\* App.tsx lines 260-265: the close button of the details panel
CloseClick ==
  /\ selectedFlower # NoSelection
  /\ selectedFlower' = NoSelection
  /\ UNCHANGED <<flowers, nextFlower, placingFlowerType, lastClick>>
  /\ UNCHANGED <<noiseVars, heightmapVars, terrainVars, groundVars, lastEdit, dragVars>>

\* App.tsx lines 525-528: the Remove Flower button of the details panel
RemoveClick ==
  /\ selectedFlower # NoSelection
  /\ flowers' = removeFlower(flowers, selectedFlower[1].id)
  /\ selectedFlower' = NoSelection
  /\ UNCHANGED <<nextFlower, placingFlowerType, lastClick>>
  /\ UNCHANGED <<noiseVars, heightmapVars, terrainVars, groundVars, lastEdit, dragVars>>

\* App.tsx line 558: the bloom button is rendered
BloomButtonShown == selectedFlower # NoSelection /\ selectedFlower[1].state = "BUD"

\* App.tsx lines 560-562: onClick of the bloom button.  No flower of the
\* list ever has the state 'BUD', so the button is never rendered and this
\* handler is no step of NextGarden.
BloomClick ==
  /\ BloomButtonShown
  /\ flowers' = updateFlower(flowers, selectedFlower[1].id, [state |-> "BLOOMED"])
  /\ UNCHANGED <<nextFlower, placingFlowerType, selectedFlower, lastClick>>
  /\ UNCHANGED <<noiseVars, heightmapVars, terrainVars, groundVars, lastEdit, dragVars>>

NextGarden ==
  \/ \E id \in FlowerDefinitionIds : SelectFlowerType(id)
  \/ \E p \in GroundPoints : GroundClick(p)
  \/ \E i \in 1 .. MaxFlowers : FlowerClick(i)
  \/ \E i \in 1 .. MaxFlowers, p \in GroundPoints : DragEnd(i, p)
  \/ CloseClick
  \/ RemoveClick

SpecGarden == InitNoise /\ [][NextGarden]_vars

\* C17: every flower placed through the UI is in the flowers list as a bud
\* until it has bloomed (its state is 'BUD', or 'BLOOMED' after the bloom
\* button), and the bloom button is there for a clicked flower that has not
\* bloomed.
PlacedFlowerIsBud ==
  /\ \A i \in DOMAIN flowers : flowers[i].state \in {"BUD", "BLOOMED"}
  /\ (selectedFlower # NoSelection /\ selectedFlower[1].state # "BLOOMED") => BloomButtonShown

\* C18: a click on the ground while a flower type is selected adds exactly
\* one flower of that type at the clicked x and z with y = 0 and clears
\* placingFlowerType; a click while no type is selected adds no flower.
GroundClickPlacesOne ==
  lastClick.called =>
    IF lastClick.placing # Null
      THEN /\ Len(lastClick.after) = Len(lastClick.before) + 1
           /\ SubSeq(lastClick.after, 1, Len(lastClick.before)) = lastClick.before
           /\ LET f == lastClick.after[Len(lastClick.after)]
              IN  /\ f.flowerDefinitionId = lastClick.placing
                  /\ f.position = [x |-> lastClick.x, y |-> 0, z |-> lastClick.z]
                  /\ \A i \in DOMAIN lastClick.before : lastClick.before[i].id # f.id
           /\ lastClick.placingAfter = Null
      ELSE lastClick.after = lastClick.before

\* C18 witness: a second flower was placed by a ground click next to one
\* that is in the list already, and the list has changed since
SecondFlowerPlaced ==
  /\ lastClick.called
  /\ lastClick.placing # Null
  /\ Len(lastClick.before) = 1
  /\ Len(lastClick.after) = 2
  /\ flowers # lastClick.after

\* part_008 line 16: the values of the type FlowerState
FlowerStates == {"BUD", "BLOOMED", "OPEN"}

\* C22: after the addFlower, updateFlower and removeFlower calls of App,
\* the state of every flower of the list is 'BUD', 'BLOOMED' or 'OPEN'.
FlowerStatesValid == \A i \in DOMAIN flowers : flowers[i].state \in FlowerStates

\* ------------------------------------------------------------------------
\* noise2D and generateHeightmap on the integer lattice
\* ------------------------------------------------------------------------
\* 2^52 + 5, an integer far beyond the 32 bits that `& 255` works on
HugeInteger == FAdd(FMul(FromInt(2 ^ 26), FromInt(2 ^ 26)), FromInt(5))

\* the coordinates sampled, as noise2D takes them: integers on both sides
\* of 0, at the end of the table and beyond 2^32, and a point off the
\* lattice
LatticeCoords ==
  {Quarters(a) : a \in {FromInt(-MaxCoord - 2), Zero, FromInt(TableSize - 1), HugeInteger}}
    \cup {2}

\* the generateHeightmap calls: those of GenCalls, and grids sampled on
\* integer coordinates only (scale a multiple of Sub / Sub, lacunarity 2)
\* with a negative seed and with a scale of 3
LatticeCalls ==
  GenCalls
    \cup {[width |-> MaxDim, height |-> MaxDim,
            options |-> Options(-6, Sub, MaxOctaves, DefaultRedistribution)],
           [width |-> MaxDim, height |-> MaxDim - 1,
            options |-> Options(0, 3 * Sub, 1, One)]}

\* one generateHeightmap call, made before the first sample is taken, and
\* any number of noise2D calls on the generator built last
NextLattice ==
  \/ \E seed \in Seeds : Construct(seed)
  \/ \E xq \in LatticeCoords, yq \in LatticeCoords : Noise2D(xq, yq)
  \/ \E c \in LatticeCalls : calls = 0 /\ ~lastNoise.called /\ GenerateHeightmap(c)

SpecLattice == InitNoise /\ [][NextLattice]_vars

\* the sample coordinates of every cell and octave of the last call are
\* integers
IntegerSamples == lastCall.called /\ lastCall.options.scale % Sub = 0

\* C23: noise2D returns 0 at every point whose x and y are integers, for
\* every seed; and the raw noise values of a heightmap whose sample
\* coordinates are all integers are all equal.
LatticeNoiseIsZero ==
  /\ (lastNoise.called /\ lastNoise.x % Sub = 0 /\ lastNoise.y % Sub = 0)
       => lastNoise.value = 0
  /\ IntegerSamples => \A i, j \in DOMAIN lastCall.raw : lastCall.raw[i] = lastCall.raw[j]

\* C23 witness: a generator built from a negative seed (its table has
\* undefined entries) has returned 0 at a lattice point away from the
\* origin, after a heightmap of more than one cell was generated on integer
\* sample coordinates.
LatticePointSampled ==
  /\ lastNoise.called
  /\ noiseSeed < 0
  /\ lastNoise.x % Sub = 0 /\ lastNoise.y % Sub = 0
  /\ lastNoise.x # 0 /\ lastNoise.y # 0
  /\ lastNoise.value = 0
  /\ IntegerSamples
  /\ Cardinality(DOMAIN lastCall.raw) > 1

\* ------------------------------------------------------------------------
\* The functions useFlowerGarden returns, called in any order with any
\* arguments
\* ------------------------------------------------------------------------
\* the flowerDefinitionId arguments tried: 0, the ids of two definitions
\* and an id past the last definition
HookDefinitionIds == {0, 1, 3, 4}

\* the flowerId arguments tried: every id made so far or still to be
\* made, and one that is never made
HookFlowerIds == 1 .. MaxFlowers + 1

\* the updates tried: those App passes (a position, the state 'BLOOMED')
HookUpdates ==
  {[position |-> [x |-> 2, y |-> 0, z |-> 3]], [state |-> "BLOOMED"]}

\* addFlower(flowerDefinitionId, position); generateFlowerId runs only
\* past the early return
AddFlower(flowerDefinitionId, p) ==
  /\ nextFlower < MaxFlowers
  /\ flowers' = addFlower(flowers, nextFlower + 1, flowerDefinitionId,
                          [x |-> p.x, y |-> 0, z |-> p.z])
  /\ nextFlower' = IF getFlowerDefinition(flowerDefinitionId) = Null
                     THEN nextFlower ELSE nextFlower + 1
  /\ lastEdit' = [op |-> "addFlower", flowerId |-> flowerDefinitionId,
                  before |-> flowers, after |-> flowers',
                  returned |-> addFlowerReturn(nextFlower + 1, flowerDefinitionId,
                                               [x |-> p.x, y |-> 0, z |-> p.z])]
  /\ UNCHANGED <<placingFlowerType, selectedFlower, lastClick, dragVars>>
  /\ UNCHANGED <<noiseVars, heightmapVars, terrainVars, groundVars>>

\* removeFlower(flowerId)
RemoveFlower(flowerId) ==
  /\ flowers' = removeFlower(flowers, flowerId)
  /\ lastEdit' = [op |-> "removeFlower", flowerId |-> flowerId,
                  before |-> flowers, after |-> flowers', returned |-> << >>]
  /\ UNCHANGED <<nextFlower, placingFlowerType, selectedFlower, lastClick, dragVars>>
  /\ UNCHANGED <<noiseVars, heightmapVars, terrainVars, groundVars>>

\* updateFlower(flowerId, updates)
UpdateFlower(flowerId, updates) ==
  /\ flowers' = updateFlower(flowers, flowerId, updates)
  /\ lastEdit' = [op |-> "updateFlower", flowerId |-> flowerId,
                  before |-> flowers, after |-> flowers', returned |-> << >>]
  /\ UNCHANGED <<nextFlower, placingFlowerType, selectedFlower, lastClick, dragVars>>
  /\ UNCHANGED <<noiseVars, heightmapVars, terrainVars, groundVars>>

NextHook ==
  \/ \E id \in HookDefinitionIds, p \in GroundPoints : AddFlower(id, p)
  \/ \E id \in HookFlowerIds : RemoveFlower(id)
  \/ \E id \in HookFlowerIds, updates \in HookUpdates : UpdateFlower(id, updates)

SpecHook == InitNoise /\ [][NextHook]_vars

\* C25: addFlower called with a flowerDefinitionId that matches no flower
\* definition returns null and leaves the flowers list unchanged.
AddUnknownReturnsNull ==
  (lastEdit.op = "addFlower" /\ lastEdit.flowerId \notin FlowerDefinitionIds) =>
    /\ lastEdit.returned = << >>
    /\ lastEdit.after = lastEdit.before

\* C25 witness: addFlower with an id past the last definition returned
\* null on a list that holds a flower.
UnknownFlowerRefused ==
  /\ lastEdit.op = "addFlower"
  /\ lastEdit.flowerId = 4
  /\ lastEdit.returned = << >>
  /\ Len(lastEdit.before) > 0
  /\ flowers = lastEdit.before

\* the flowers of the list with another id, in their order
OtherFlowers(list, flowerId) == SelectSeq(list, LAMBDA f : f.id # flowerId)

\* the id is the id of no flower of the list
NotInList(list, flowerId) == \A i \in DOMAIN list : list[i].id # flowerId

\* C26: removeFlower(id) and updateFlower(id, updates) leave every flower
\* with another id with its fields and in its relative order, updateFlower
\* keeps the length of the list (and so the place of every flower), and
\* with an id that is not in the list both leave the list unchanged.
EditsOnlyThatFlower ==
  lastEdit.op \in {"removeFlower", "updateFlower"} =>
    /\ OtherFlowers(lastEdit.after, lastEdit.flowerId)
         = OtherFlowers(lastEdit.before, lastEdit.flowerId)
    /\ lastEdit.op = "updateFlower" =>
         /\ Len(lastEdit.after) = Len(lastEdit.before)
         /\ \A i \in DOMAIN lastEdit.before :
              lastEdit.before[i].id # lastEdit.flowerId
                => lastEdit.after[i] = lastEdit.before[i]
    /\ NotInList(lastEdit.before, lastEdit.flowerId) => lastEdit.after = lastEdit.before

\* C26 witness: updateFlower changed one flower of a list of two and left
\* the other as it was.
OneOfTwoUpdated ==
  /\ lastEdit.op = "updateFlower"
  /\ Len(lastEdit.before) = 2
  /\ lastEdit.after # lastEdit.before
  /\ \E i \in DOMAIN lastEdit.before : lastEdit.after[i] = lastEdit.before[i]

\* ------------------------------------------------------------------------
\* Dragging a flower: the pointer events of FlowerModel and the callbacks
\* App gives it, next to the other handlers of App.  A render and its
\* effects are complete before the next event is handled.
\* ------------------------------------------------------------------------
\* App.tsx line 656: draggable={!placingFlowerType}
Draggable == placingFlowerType = Null

\* the ids of the flowers rendered (App.tsx lines 632-659)
FlowerIds == {flowers[i].id : i \in DOMAIN flowers}

\* FlowerModel.tsx lines 295-352: the FlowerModels whose effect
\* has its pointermove and pointerup listeners on the window; the effect
\* returns early unless dragging and draggable, and its cleanup takes the
\* listeners off when either changes or the flower is unmounted
Listening == IF Draggable THEN dragging \cap FlowerIds ELSE {}

\* onDragEnd of App (lines 652-655) for each flower of ids: updateFlower
\* with the position the mesh was dragged to
DragEndEach(list, ids, position) ==
  LET RECURSIVE Each(_, _)
      Each(l, S) ==
        IF S = {} THEN l
        ELSE LET id == CHOOSE id \in S : TRUE
             IN  Each(updateFlower(l, id, [position |-> position]), S \ {id})
  IN  Each(list, ids)

\* FlowerModel.tsx lines 270-292: handlePointerDown of the i-th flower; App's
\* onDragStart is setIsDraggingFlower(true) (line 651)
PointerDown(i) ==
  /\ pointer = "up"
  /\ i \in DOMAIN flowers
  /\ IF Draggable
       THEN /\ dragging' = dragging \cup {flowers[i].id}
            /\ isDraggingFlower' = TRUE
            /\ pointer' = "flower"
       ELSE /\ pointer' = "down"
            /\ UNCHANGED <<dragging, isDraggingFlower>>
  /\ UNCHANGED <<flowers, nextFlower, placingFlowerType, selectedFlower, lastClick,
                 lastEdit, lastPointerUp>>
  /\ UNCHANGED <<noiseVars, heightmapVars, terrainVars, groundVars>>

\* a pointer-down on the ground plane, which has no handler for it
PointerDownGround ==
  /\ pointer = "up"
  /\ pointer' = "down"
  /\ UNCHANGED <<flowers, nextFlower, placingFlowerType, selectedFlower, lastClick,
                 lastEdit, isDraggingFlower, dragging, lastPointerUp>>
  /\ UNCHANGED <<noiseVars, heightmapVars, terrainVars, groundVars>>

\* a pointerup event on the window, the mesh dragged to the point p:
\* handleGlobalPointerUp (FlowerModel.tsx lines 331-343) of every listener
\* that is installed, each calling App's onDragEnd
PointerUp(p) ==
  /\ pointer # "up"
  /\ pointer' = "up"
  /\ flowers' = DragEndEach(flowers, Listening, [x |-> p.x, y |-> 0, z |-> p.z])
  /\ dragging' = dragging \ Listening
  /\ isDraggingFlower' = IF Listening = {} THEN isDraggingFlower ELSE FALSE
  /\ lastPointerUp' = [called |-> TRUE, started |-> pointer = "flower",
                       ended |-> Listening # {}, after |-> isDraggingFlower']
  /\ UNCHANGED <<nextFlower, placingFlowerType, selectedFlower, lastClick, lastEdit>>
  /\ UNCHANGED <<noiseVars, heightmapVars, terrainVars, groundVars>>

\* the handlers of the page's buttons run at any time (a key press or a
\* second pointer reaches them while the pointer is down); a click in the
\* canvas follows its pointer-up
NextDrag ==
  \/ \E id \in FlowerDefinitionIds : SelectFlowerType(id)
  \/ \E i \in 1 .. MaxFlowers : PointerDown(i)
  \/ PointerDownGround
  \/ \E p \in GroundPoints : PointerUp(p)
  \/ \E p \in GroundPoints : pointer = "up" /\ GroundClick(p)
  \/ \E i \in 1 .. MaxFlowers : pointer = "up" /\ FlowerClick(i)
  \/ CloseClick
  \/ RemoveClick

SpecDrag == InitNoise /\ [][NextDrag]_vars

\* C28: once a pointer-down on a draggable flower has set isDraggingFlower
\* to true, the next pointer-up calls onDragEnd and sets isDraggingFlower
\* back to false, whatever other UI events came in between.
DragAlwaysEnds ==
  (lastPointerUp.called /\ lastPointerUp.started) =>
    (lastPointerUp.ended /\ ~lastPointerUp.after)

\* the drags no other handler came into: the flower is still rendered and
\* draggable at the pointer-up
UndisturbedDragEnds ==
  [][(pointer = "flower" /\ pointer' = "up" /\ Listening # {})
       => (lastPointerUp'.ended /\ ~isDraggingFlower')]_vars

\* a flower that is 'BLOOMED' is not 'BUD' after the step, under any
\* handler of App (the property C27 asks for)
BloomedStaysBloomed ==
  [][\A i \in DOMAIN flowers, j \in DOMAIN flowers' :
       (flowers[i].id = flowers'[j].id /\ flowers[i].state = "BLOOMED")
         => flowers'[j].state # "BUD"]_vars

\* no flower of the list is ever 'BUD' or 'BLOOMED', and the bloom button
\* is never rendered: the case C27 is about does not occur
NoFlowerBlooms ==
  /\ \A i \in DOMAIN flowers : flowers[i].state \notin {"BUD", "BLOOMED"}
  /\ ~BloomButtonShown

====
